---- MODULE Spec2Model ----
(***************************************************************************)
(* A model of the asynchronous job layer of basket (news/tasks.py,         *)
(* news/utils.py, news/backends/sfdc.py): the et_task job wrapper with its *)
(* maintenance gate and retry engine, the session-refreshing Salesforce    *)
(* client, the newsletter reconciliation of upsert_contact and             *)
(* parse_newsletters, and the welcome-message helpers.                     *)
(*                                                                         *)
(* Python strings are sequences of one-character strings, so that split,   *)
(* strip, lower and slicing are computed as the code computes them.        *)
(***************************************************************************)
EXTENDS Integers, Sequences, FiniteSets, TLC

\* ------------------------------------------------------------------ bounds
\* number of jobs submitted to the broker
MaxJobs == 1
\* length of the comma-separated newsletters field of a request
MaxCsvLen == 3
\* length of a language code handed to mogrify_message_id
MaxLangLen == 3
\* number of Salesforce sessions the login operation hands out
MaxSessions == 3
\* number of calls made through the client in one run
MaxCalls == 3
\* length of the value of the sforce-limit-info header
MaxHeaderLen == 4
\* number of tokens generate_token hands out
MaxTokens == 2
\* number of workers running reconciliation jobs of one contact at a time
MaxWorkers == 2
\* number of send_message jobs submitted
MaxSends == 2

\* confirm_user jobs submitted one after the other
MaxConfirms == 2

VARIABLES
    \* job wrapper and retry engine (news/tasks.py); attempts counts the
    \* invocations of the function of the job in the broker
    MAINTENANCE_MODE, STORE_TASK_FAILURES, broker, submitted, QueuedTask, FailedTask,
    last_exec, attempts,
    \* whether the calls of the metrics client (django_statsd) raise
    statsd_raises,
    \* session-refreshing client (news/backends/sfdc.py)
    sf_pc, session_id, srv_session, sessions_issued, sf_call,
    \* the calls made through the client so far, those whose first attempt met
    \* an expired session, and the calls of get_sf_session after construction
    sf_seq,
    \* contact store and reconciliation (news/tasks.py, news/utils.py)
    contact, tokens_minted, rc, jobs,
    \* message helpers (news/tasks.py)
    mg, sw,
    \* send_message and its cache of bad message ids (news/tasks.py)
    BAD_MESSAGE_ID_CACHE, sm,
    \* the job that calls the contact store and the dict its arguments hold
    sj

taskVars ==
    <<MAINTENANCE_MODE, STORE_TASK_FAILURES, broker, submitted, QueuedTask, FailedTask,
      last_exec, attempts, statsd_raises>>
sfVars == <<sf_pc, session_id, srv_session, sessions_issued, sf_call, sf_seq>>
reconVars == <<contact, tokens_minted, rc, jobs>>
sendVars == <<BAD_MESSAGE_ID_CACHE, sm>>
msgVars == <<mg, sw, sendVars>>
vars == <<taskVars, sfVars, reconVars, msgVars, sj>>

\* ------------------------------------------------------- string helpers
Range(s) == {s[i] : i \in 1..Len(s)}

\* all sequences over S of length at most n
RECURSIVE SeqsUpTo(_, _)
SeqsUpTo(S, n) ==
    IF n = 0 THEN {<<>>}
    ELSE LET shorter == SeqsUpTo(S, n - 1)
         IN shorter \cup {Append(s, c) : s \in {t \in shorter : Len(t) = n - 1}, c \in S}

\* s[:n]
Prefix(s, n) == SubSeq(s, 1, IF Len(s) < n THEN Len(s) ELSE n)

\* one character of str.lower()
LowerChar(c) ==
    CASE c = "F" -> "f"
      [] c = "R" -> "r"
      [] c = "P" -> "p"
      [] c = "T" -> "t"
      [] c = "E" -> "e"
      [] c = "N" -> "n"
      [] OTHER -> c

\* str.lower()
Lower(s) == [i \in 1..Len(s) |-> LowerChar(s[i])]

IsSpace(c) == c = " "

\* str.strip(): drops leading and trailing whitespace only
RECURSIVE LStrip(_)
LStrip(s) == IF Len(s) > 0 /\ IsSpace(s[1]) THEN LStrip(Tail(s)) ELSE s

RECURSIVE RStrip(_)
RStrip(s) ==
    IF Len(s) > 0 /\ IsSpace(s[Len(s)]) THEN RStrip(SubSeq(s, 1, Len(s) - 1)) ELSE s

Strip(s) == RStrip(LStrip(s))

\* str.split(','): the pieces between separators, empty pieces kept, so
\* ''.split(',') is [''] and never the empty list
RECURSIVE SplitFrom(_, _, _)
SplitFrom(s, sep, piece) ==
    IF s = <<>> THEN <<piece>>
    ELSE IF s[1] = sep THEN <<piece>> \o SplitFrom(Tail(s), sep, <<>>)
    ELSE SplitFrom(Tail(s), sep, Append(piece, s[1]))

Split(s, sep) == SplitFrom(s, sep, <<>>)

\* `fragment in message`: an error message is a sequence of fragments and a
\* pattern occurs in it when it is one of them
Contains(msg, pattern) == \E i \in 1..Len(msg) : msg[i] = pattern

\* an enumeration of a finite set, as iteration over a Python set yields it
RECURSIVE SetToSeq(_)
SetToSeq(S) ==
    IF S = {} THEN <<>>
    ELSE LET x == CHOOSE y \in S : TRUE IN <<x>> \o SetToSeq(S \ {x})

Count(s, x) == Cardinality({i \in 1..Len(s) : s[i] = x})

\* ------------------------------------------- job wrapper and retry engine
IGNORE_ERROR_MSGS == <<"InvalidEmailAddress", "An invalid phone number was provided">>

IGNORE_ERROR_MSGS_POST_RETRY == <<"There are no valid subscribers">>

MAINTENANCE_EXEMPT ==
    <<"news.tasks.add_fxa_activity", "news.tasks.update_student_ambassadors",
      "news.tasks.add_sms_user", "news.tasks.add_sms_user_optin">>

\* ETTask.default_retry_delay = 60 * 5 and ETTask.max_retries
default_retry_delay == 60 * 5

max_retries == 8

\* the functions decorated with @et_task; the task name is module.function
TaskNames ==
    {"news.tasks.add_fxa_activity", "news.tasks.update_fxa_info",
     "news.tasks.update_get_involved", "news.tasks.update_student_ambassadors",
     "news.tasks.update_user", "news.tasks.upsert_user", "news.tasks.send_message",
     "news.tasks.confirm_user", "news.tasks.add_sms_user", "news.tasks.add_sms_user_optin",
     "news.tasks.update_custom_unsub", "news.tasks.send_recovery_message_task"}

\* exception classes a task body lets escape; the first three are the ones
\* the wrapper catches
TransientClasses == {"IOError", "NewsletterException", "ETRestError"}

ExcClasses == TransientClasses \cup {"BasketError", "KeyError"}

\* every exception class caught by the handler
TransientAny(class) == TRUE

\* line 160: except (IOError, NewsletterException, ETRestError)
Transient(class) == class \in TransientClasses

\* messages str(e) of the exceptions, as fragments
ErrorMsgs ==
    {<<"connection reset">>,
     <<"Error: ", "InvalidEmailAddress", " (400)">>,
     <<"An invalid phone number was provided">>,
     <<"There are no valid subscribers", ".">>}

NoExc == [class |-> "none", msg |-> <<>>]

\* what one run of a task body does: return, let an exception escape, or
\* (add_sms_user only, on ETRestError from send_sms) ask for a retry itself
BodyOutcomes(name) ==
    {[kind |-> "return", class |-> "none", msg |-> <<>>]}
    \cup {[kind |-> "raise", class |-> c, msg |-> m] :
             c \in (IF name = "news.tasks.add_sms_user"
                    THEN ExcClasses \ {"ETRestError"} ELSE ExcClasses),
             m \in ErrorMsgs}
    \cup (IF name = "news.tasks.add_sms_user"
          THEN {[kind |-> "body_retry", class |-> "ETRestError", msg |-> m] : m \in ErrorMsgs}
          ELSE {})

\* the gate without its exemption list
DeferredNoExemption(flag, name) == flag

\* line 148: the maintenance gate defers the call
Deferred(flag, name) ==
    flag /\ ~(\E i \in 1..Len(MAINTENANCE_EXEMPT) : MAINTENANCE_EXEMPT[i] = name)

\* line 165-167: for ignore_msg in IGNORE_ERROR_MSGS: if ignore_msg in exc_msg
Ignored(exc_msg) ==
    \E i \in 1..Len(IGNORE_ERROR_MSGS) : Contains(exc_msg, IGNORE_ERROR_MSGS[i])

\* the second list matching no message
IgnoredPostRetryNever(exc_msg) == FALSE

\* lines 176-178: for ignore_msg in IGNORE_ERROR_MSGS_POST_RETRY
IgnoredPostRetry(exc_msg) ==
    \E i \in 1..Len(IGNORE_ERROR_MSGS_POST_RETRY) :
        Contains(exc_msg, IGNORE_ERROR_MSGS_POST_RETRY[i])

\* the bound checked one retry too late
RetriesExceededLate(retries) == retries + 1 > max_retries + 1

\* Task.retry: the request's retry count plus one may not exceed max_retries
RetriesExceeded(retries) == retries + 1 > max_retries

\* countdown=(2 ** wrapped.request.retries) * 60
WrapperCountdown(retries) == (2 ^ retries) * 60

\* add_sms_user.retry(exc=error): no countdown given, Task.retry falls back to
\* default_retry_delay
BodyCountdown(retries) == default_retry_delay

\* the message of a retry: same task, retry count incremented, the kwargs as
\* the wrapper holds them (start_time popped)
\* a retry message that does not count the retry
RetryMessageUncounted(m, countdown) ==
    [id |-> m.id, name |-> m.name, retries |-> m.retries,
     args |-> m.args, kwargs |-> m.kwargs \ {"start_time"}, countdown |-> countdown]

RetryMessage(m, countdown) ==
    [id |-> m.id, name |-> m.name, retries |-> m.retries + 1,
     args |-> m.args, kwargs |-> m.kwargs \ {"start_time"}, countdown |-> countdown]

\* the record made of the keyword arguments as they arrived
QueuedRecordWithStartTime(m) == [name |-> m.name, args |-> m.args, kwargs |-> m.kwargs]

\* lines 142 and 150-154: start_time is popped before the record is made
QueuedRecord(m) == [name |-> m.name, args |-> m.args, kwargs |-> m.kwargs \ {"start_time"}]

\* lines 108-115; of repr(exc) the class is kept
FailedRecord(m, exc) == [task_id |-> m.id, name |-> m.name, exc |-> exc.class]

\* a failure handler that stores nothing
on_failure_nothing(m, exc) == FailedTask

\* ETTask.on_failure, lines 107-115: the FailedTask table after the handler
on_failure(m, exc) ==
    IF STORE_TASK_FAILURES THEN Append(FailedTask, FailedRecord(m, exc)) ELSE FailedTask

\* the counter of the handler the worker runs for the outcome of wrapped():
\* on_success when it returned, on_failure when an exception left it,
\* on_retry when Task.retry rescheduled it
HandlerCounter(result) ==
    CASE result \in {"success", "ignored", "suppressed", "queued"} -> "success"
      [] result = "failure" -> "failure"
      [] result = "retry" -> "retry"
      [] OTHER -> "none"

\* the record of one execution of wrapped(), for the properties
ExecRecord(m, flag, invoked, queued, result, exc, countdown, by) ==
    [id |-> m.id, name |-> m.name, retries |-> m.retries, maint |-> flag,
     invoked |-> invoked, queued |-> queued, result |-> result, exc |-> exc,
     countdown |-> countdown, by |-> by, counter |-> HandlerCounter(result)]

NoExec ==
    [id |-> 0, name |-> "none", retries |-> 0, maint |-> FALSE, invoked |-> 0,
     queued |-> 0, result |-> "none", exc |-> NoExc, countdown |-> 0, by |-> "none",
     counter |-> "none"]

\* the job ends without retry and without failure record
Finish(m, flag, result, exc) ==
    /\ broker' = broker \ {m}
    /\ last_exec' = ExecRecord(m, flag, 1, 0, result, exc, 0, "none")
    /\ UNCHANGED <<QueuedTask, FailedTask>>

\* the exception leaves wrapped(): the worker runs ETTask.on_failure
Fail(m, flag, exc) ==
    /\ broker' = broker \ {m}
    /\ FailedTask' = on_failure(m, exc)
    /\ last_exec' = ExecRecord(m, flag, 1, 0, "failure", exc, 0, "none")
    /\ UNCHANGED QueuedTask

\* Task.retry within bounds: the retry message replaces the running one
Retry(m, flag, exc, countdown, by) ==
    /\ broker' = (broker \ {m}) \cup {RetryMessage(m, countdown)}
    /\ last_exec' = ExecRecord(m, flag, 1, 0, "retry", exc, countdown, by)
    /\ UNCHANGED <<QueuedTask, FailedTask>>

\* lines 160-180: the handler of (IOError, NewsletterException, ETRestError)
HandleTransient(m, flag, exc) ==
    IF Ignored(exc.msg) THEN Finish(m, flag, "ignored", exc)
    ELSE IF ~RetriesExceeded(m.retries)
         THEN Retry(m, flag, exc, WrapperCountdown(m.retries), "wrapper")
    ELSE IF IgnoredPostRetry(exc.msg) THEN Finish(m, flag, "suppressed", exc)
    ELSE Fail(m, flag, exc)
\* the exception of a metrics call that raises
MetricsError == [class |-> "MetricsError", msg |-> <<>>]

\* lines 145-147 with a metrics client whose calls raise: the exception of
\* statsd.timing or statsd.incr leaves wrapped() before the maintenance gate
\* and before the function; in ETTask.on_failure statsd.incr (line 105)
\* raises before the FailedTask record of line 108 is made
MetricsRaise(m, flag) ==
    /\ broker' = broker \ {m}
    /\ last_exec' = [ExecRecord(m, flag, 0, 0, "failure", MetricsError, 0, "none")
                        EXCEPT !.counter = "none"]
    /\ attempts' = attempts
    /\ UNCHANGED <<QueuedTask, FailedTask>>

\* the executions of a job are counted up to this number
AttemptsCap == max_retries + 2

\* lines 141-180: one execution of the wrapped task for message m, the body
\* behaving as `out`
wrapped(m, out) ==
    /\ m \in broker
    /\ IF statsd_raises
       THEN MetricsRaise(m, MAINTENANCE_MODE)
       ELSE IF Deferred(MAINTENANCE_MODE, m.name)
       THEN /\ QueuedTask' = Append(QueuedTask, QueuedRecord(m))
            /\ broker' = broker \ {m}
            /\ last_exec' = ExecRecord(m, MAINTENANCE_MODE, 0, 1, "queued", NoExc, 0, "none")
            /\ attempts' = attempts
            /\ UNCHANGED FailedTask
       ELSE /\ attempts' = IF attempts < AttemptsCap THEN attempts + 1 ELSE attempts
            /\ LET exc == [class |-> out.class, msg |-> out.msg]
               IN CASE out.kind = "return" ->
                         Finish(m, MAINTENANCE_MODE, "success", NoExc)
                    [] out.kind = "body_retry" ->
                         \* Task.retry(exc=error) past max_retries re-raises error
                         \* into the wrapper's handler; else Retry passes through it
                         IF RetriesExceeded(m.retries)
                         THEN HandleTransient(m, MAINTENANCE_MODE, exc)
                         ELSE Retry(m, MAINTENANCE_MODE, exc, BodyCountdown(m.retries), "body")
                    [] out.kind = "raise" /\ Transient(out.class) ->
                         HandleTransient(m, MAINTENANCE_MODE, exc)
                    [] OTHER -> Fail(m, MAINTENANCE_MODE, exc)
    /\ UNCHANGED <<MAINTENANCE_MODE, STORE_TASK_FAILURES, submitted, statsd_raises>>

\* settings.MAINTENANCE_MODE is switched by the operators
SetMaintenance ==
    /\ MAINTENANCE_MODE' = ~MAINTENANCE_MODE
    /\ UNCHANGED <<STORE_TASK_FAILURES, broker, submitted, QueuedTask, FailedTask,
                   last_exec, attempts, statsd_raises>>

\* the metrics sink goes away or comes back: the calls of the client raise
\* or return
SetStatsd ==
    /\ statsd_raises' = ~statsd_raises
    /\ UNCHANGED <<MAINTENANCE_MODE, STORE_TASK_FAILURES, broker, submitted, QueuedTask,
                   FailedTask, last_exec, attempts>>

\* settings.STORE_TASK_FAILURES is set by the deployment
SetStoreFailures ==
    /\ STORE_TASK_FAILURES' = ~STORE_TASK_FAILURES
    /\ UNCHANGED <<MAINTENANCE_MODE, broker, submitted, QueuedTask, FailedTask,
                   last_exec, attempts, statsd_raises>>

\* task.delay(...): a new message with retry count 0; the jobs are run one
\* after the other, the wrapper sharing nothing between them but the
\* settings and the two logs
SubmitOneOf(names, keywords) ==
    /\ submitted < MaxJobs
    /\ broker = {}
    /\ \E name \in names, kw \in SUBSET keywords :
          broker' = broker \cup
              {[id |-> submitted + 1, name |-> name, retries |-> 0,
                args |-> <<submitted + 1>>, kwargs |-> kw, countdown |-> 0]}
    /\ submitted' = submitted + 1
    /\ last_exec' = NoExec
    /\ attempts' = 0
    /\ UNCHANGED <<MAINTENANCE_MODE, STORE_TASK_FAILURES, QueuedTask, FailedTask,
                   statsd_raises>>

Submit == SubmitOneOf(TaskNames, {"start_time"})

\* a task the maintenance gate defers, and one it lets through and whose
\* body calls retry itself
RetriedTaskNames == {"news.tasks.upsert_user", "news.tasks.add_sms_user"}

SubmitRetried == SubmitOneOf(RetriedTaskNames, {"start_time"})

\* update_fxa_info.delay(..., skip_welcome=..., start_time=...), line 240, a
\* task with a keyword argument of its own, and an exempt task
SubmitKeywords ==
    SubmitOneOf({"news.tasks.update_fxa_info", "news.tasks.add_sms_user"},
                {"start_time", "skip_welcome"})

Execute == \E m \in broker : \E out \in BodyOutcomes(m.name) : wrapped(m, out)

InitTask ==
    /\ MAINTENANCE_MODE = FALSE
    /\ STORE_TASK_FAILURES = TRUE
    /\ statsd_raises = FALSE
    /\ broker = {}
    /\ submitted = 0
    /\ QueuedTask = <<>>
    /\ FailedTask = <<>>
    /\ last_exec = NoExec
    /\ attempts = 0

NextTask ==
    \/ SetMaintenance /\ UNCHANGED <<sfVars, reconVars, msgVars, sj>>
    \/ SetStoreFailures /\ UNCHANGED <<sfVars, reconVars, msgVars, sj>>
    \/ Submit /\ UNCHANGED <<sfVars, reconVars, msgVars, sj>>
    \/ Execute /\ UNCHANGED <<sfVars, reconVars, msgVars, sj>>

\* the jobs of the two kinds of task, for the runs to their end
NextTaskFair ==
    \/ SetMaintenance /\ UNCHANGED <<sfVars, reconVars, msgVars, sj>>
    \/ SubmitRetried /\ UNCHANGED <<sfVars, reconVars, msgVars, sj>>
    \/ Execute /\ UNCHANGED <<sfVars, reconVars, msgVars, sj>>

\* jobs with keyword arguments at the maintenance gate
NextGate ==
    \/ SetMaintenance /\ UNCHANGED <<sfVars, reconVars, msgVars, sj>>
    \/ SubmitKeywords /\ UNCHANGED <<sfVars, reconVars, msgVars, sj>>
    \/ Execute /\ UNCHANGED <<sfVars, reconVars, msgVars, sj>>

\* the jobs with a metrics sink that comes and goes
NextMetrics ==
    \/ SetStatsd /\ UNCHANGED <<sfVars, reconVars, msgVars, sj>>
    \/ SetMaintenance /\ UNCHANGED <<sfVars, reconVars, msgVars, sj>>
    \/ Submit /\ UNCHANGED <<sfVars, reconVars, msgVars, sj>>
    \/ Execute /\ UNCHANGED <<sfVars, reconVars, msgVars, sj>>

\* ------------------------------------------- session-refreshing client
Methods == {"GET", "POST", "PATCH"}

\* the characters of a header value: the separators of line 102, a digit
\* that is not zero, the digit zero and a character that is no digit
HeaderChars == {"=", "/", "1", "0", "x"}

\* resp.headers as far as line 100 looks at it: without the header, or with
\* a value
NoLimitInfo == [present |-> FALSE, value |-> <<>>]

LimitInfoHeaders ==
    {NoLimitInfo} \cup
    {[present |-> TRUE, value |-> v] :
        v \in UNION {[1..n -> HeaderChars] : n \in 0..MaxHeaderLen}}

\* float(s) of a string of these characters: a number when s is a non-empty
\* string of digits, ValueError otherwise
IsFloat(s) == s # <<>> /\ \A i \in 1..Len(s) : s[i] \in {"0", "1"}

FloatIsZero(s) == \A i \in 1..Len(s) : s[i] = "0"

\* line 102: resp.headers['sforce-limit-info'].split('=')[1].split('/')
\* unpacked into usage and limit; lines 103-104: any exception of that line
\* leaves both None (the empty string here, which line 106 treats alike)
UsageAndLimit(value) ==
    LET pieces == Split(value, "=")
        parts == Split(pieces[2], "/")
    IN  IF Len(pieces) < 2 \/ Len(parts) # 2 THEN <<<<>>, <<>>>> ELSE parts

\* lines 100-110: what _call_salesforce does with the response of a
\* successful call: returns it, having sent the gauge or not, or raises
InspectLimitInfo(headers) ==
    LET usage == UsageAndLimit(headers.value)[1]
        limit == UsageAndLimit(headers.value)[2]
    IN  IF ~headers.present \/ usage = <<>>
        THEN [returns |-> "resp", gauge |-> FALSE]
        ELSE IF ~IsFloat(usage) \/ ~IsFloat(limit)
        THEN [returns |-> "ValueError", gauge |-> FALSE]
        ELSE IF FloatIsZero(limit)
        THEN [returns |-> "ZeroDivisionError", gauge |-> FALSE]
        ELSE [returns |-> "resp", gauge |-> TRUE]

\* what the caller of _call_salesforce gets when the last attempt answered a
\* with these headers: an exception of the attempt propagates
Returned(a, headers) == IF a = "resp" THEN InspectLimitInfo(headers).returns ELSE a

\* the headers that can come with answer a
HeadersOf(a) == IF a = "resp" THEN LimitInfoHeaders ELSE {NoLimitInfo}

NewCall(method) ==
    [method |-> method, attempts |-> 0, logins |-> 0, first |-> "none",
     second |-> "none", login |-> "none", result |-> "none",
     headers |-> NoLimitInfo, returned |-> "none", gauge |-> FALSE]

\* what the store answers to a request carrying session s: an expired
\* session is refused; otherwise the response, or another error
Answers(s) ==
    IF s # srv_session THEN {"SalesforceExpiredSession", "SalesforceError"}
    ELSE {"resp", "SalesforceError"}

\* the expired session handled in a loop
AfterExpiredLoop(n) == "login"

\* lines 93-97: where control goes when attempt number n raised
\* SalesforceExpiredSession: the handler of the first attempt logs in again,
\* the second attempt runs inside the handler and its exception propagates
AfterExpired(n) == IF n = 1 THEN "login" ELSE "done"

\* self.contact.<method>(...) enters _call_salesforce
CallSalesforce ==
    /\ sf_pc = "idle"
    /\ sf_seq.calls < MaxCalls
    /\ \E method \in Methods : sf_call' = NewCall(method)
    /\ sf_pc' = "attempt1"
    /\ sf_seq' = [sf_seq EXCEPT !.calls = @ + 1]
    /\ UNCHANGED <<session_id, srv_session, sessions_issued>>

\* line 94: super()._call_salesforce(method, url, **kwargs)
Attempt1 ==
    /\ sf_pc = "attempt1"
    /\ \E a \in Answers(session_id) : \E headers \in HeadersOf(a) :
          /\ sf_call' = [sf_call EXCEPT !.attempts = @ + 1, !.first = a,
                            !.result = IF a = "SalesforceExpiredSession" THEN @ ELSE a,
                            !.headers = headers,
                            !.returned = IF a = "SalesforceExpiredSession" THEN @
                                         ELSE Returned(a, headers),
                            !.gauge = a = "resp" /\ InspectLimitInfo(headers).gauge]
          /\ sf_pc' = IF a = "SalesforceExpiredSession" THEN AfterExpired(1) ELSE "done"
          /\ sf_seq' = [sf_seq EXCEPT !.expired =
                            IF a = "SalesforceExpiredSession" THEN @ + 1 ELSE @]
    /\ UNCHANGED <<session_id, srv_session, sessions_issued>>

\* the login result dropped instead of stored on the client
get_sf_session_dropped ==
    /\ sf_pc = "login"
    /\ sf_seq' = [sf_seq EXCEPT !.logins = @ + 1]
    /\ sessions_issued < MaxSessions
    /\ sessions_issued' = sessions_issued + 1
    /\ srv_session' = sessions_issued + 1
    /\ sf_call' = [sf_call EXCEPT !.logins = @ + 1, !.login = "ok"]
    /\ sf_pc' = "attempt2"
    /\ UNCHANGED session_id

\* line 96: self.session_id, _ = get_sf_session(); the login hands out a new
\* session or raises SalesforceAuthenticationFailed
get_sf_session ==
    /\ sf_pc = "login"
    /\ sf_seq' = [sf_seq EXCEPT !.logins = @ + 1]
    /\ \/ /\ sessions_issued < MaxSessions
          /\ sessions_issued' = sessions_issued + 1
          /\ srv_session' = sessions_issued + 1
          /\ session_id' = sessions_issued + 1
          /\ sf_call' = [sf_call EXCEPT !.logins = @ + 1, !.login = "ok"]
          /\ sf_pc' = "attempt2"
       \/ /\ sf_call' = [sf_call EXCEPT !.logins = @ + 1, !.login = "failed",
                            !.result = "SalesforceAuthenticationFailed",
                            !.returned = "SalesforceAuthenticationFailed"]
          /\ sf_pc' = "done"
          /\ UNCHANGED <<session_id, srv_session, sessions_issued>>

\* line 97: the same call once more, inside the except block
Attempt2 ==
    /\ sf_pc = "attempt2"
    /\ \E a \in Answers(session_id) : \E headers \in HeadersOf(a) :
          /\ sf_call' = [sf_call EXCEPT !.attempts = @ + 1, !.second = a,
                            !.result = IF a = "SalesforceExpiredSession"
                                          /\ AfterExpired(2) # "done" THEN @ ELSE a,
                            !.headers = headers,
                            !.returned = IF a = "SalesforceExpiredSession"
                                            /\ AfterExpired(2) # "done" THEN @
                                         ELSE Returned(a, headers),
                            !.gauge = a = "resp" /\ InspectLimitInfo(headers).gauge]
          /\ sf_pc' = IF a = "SalesforceExpiredSession" THEN AfterExpired(2) ELSE "done"
    /\ UNCHANGED <<session_id, srv_session, sessions_issued, sf_seq>>

\* line 110 or the propagating exception: the call is over
CallReturns ==
    /\ sf_pc = "done"
    /\ sf_pc' = "idle"
    /\ UNCHANGED <<session_id, srv_session, sessions_issued, sf_call, sf_seq>>

\* the store invalidates the session at a time of its choosing
ExpireSession ==
    /\ srv_session # 0
    /\ srv_session' = 0
    /\ UNCHANGED <<sf_pc, session_id, sessions_issued, sf_call, sf_seq>>

\* SFDC.__init__: session_id, sf_instance = get_sf_session()
InitSF ==
    /\ sf_pc = "idle"
    /\ session_id = 1
    /\ srv_session = 1
    /\ sessions_issued = 1
    /\ sf_call = NewCall("GET")
    /\ sf_seq = [calls |-> 0, expired |-> 0, logins |-> 0]

NextSF ==
    \/ CallSalesforce /\ UNCHANGED <<taskVars, reconVars, msgVars, sj>>
    \/ Attempt1 /\ UNCHANGED <<taskVars, reconVars, msgVars, sj>>
    \/ get_sf_session /\ UNCHANGED <<taskVars, reconVars, msgVars, sj>>
    \/ Attempt2 /\ UNCHANGED <<taskVars, reconVars, msgVars, sj>>
    \/ CallReturns /\ UNCHANGED <<taskVars, reconVars, msgVars, sj>>
    \/ ExpireSession /\ UNCHANGED <<taskVars, reconVars, msgVars, sj>>

\* ------------------------------------------ subscription reconciliation
SUBSCRIBE == "SUBSCRIBE"

UNSUBSCRIBE == "UNSUBSCRIBE"

SET == "SET"

ApiCallTypes == {SUBSCRIBE, UNSUBSCRIBE, SET}

\* the Newsletter table: slug, requires_double_optin, welcome, languages
Newsletters ==
    {[slug |-> <<"a">>, requires_double_optin |-> TRUE,
      welcome |-> <<"w">>, language_list |-> <<<<"e", "n">>, <<"f", "r">>>>],
     [slug |-> <<"b">>, requires_double_optin |-> FALSE,
      welcome |-> <<" ", "w">>, language_list |-> <<<<"e", "n">>>>],
     [slug |-> <<"c">>, requires_double_optin |-> TRUE,
      welcome |-> <<" ">>, language_list |-> <<<<"e", "n">>>>],
     [slug |-> <<"d">>, requires_double_optin |-> TRUE,
      welcome |-> <<"v">>, language_list |-> <<<<"F", "R", "-", "f">>, <<"e", "n">>>>]}

NewsletterSlugs == {n.slug : n \in Newsletters}

\* news.newsletters.newsletter_group_newsletter_slugs: the member slugs of
\* the newsletter group named nl, nothing when nl names no group
newsletter_group_newsletter_slugs(nl) ==
    IF nl = <<"g">> THEN {<<"b">>, <<"c">>} ELSE {}

\* news.newsletters.newsletter_map(): slug -> vendor field, for the
\* newsletters of the table; news_map[k] raises KeyError for any other k
InNewsMap(k) == k \in NewsletterSlugs

\* lines 369-372
CurSet(cur_newsletters) == IF cur_newsletters.isNone THEN {} ELSE cur_newsletters.items

\* every action type expands group slugs
ExpandingAlways(api_call_type) == TRUE

\* line 374: only SUBSCRIBE expands group slugs
Expanding(api_call_type) == api_call_type = SUBSCRIBE

\* line 385
Subscribing(api_call_type) == api_call_type = SUBSCRIBE \/ api_call_type = SET

\* the unsubscribe branch taken for every action type
UnsubscribingAlways(api_call_type) == TRUE

\* line 390
Unsubscribing(api_call_type) == api_call_type = UNSUBSCRIBE \/ api_call_type = SET

\* lines 374-383: SUBSCRIBE replaces each group slug by its members
ExpandGroups(newsletters) ==
    UNION {IF newsletter_group_newsletter_slugs(newsletters[i]) # {}
           THEN newsletter_group_newsletter_slugs(newsletters[i])
           ELSE {newsletters[i]} : i \in 1..Len(newsletters)}

\* SET unsubscribing every current newsletter, requested or not
UnsubsAllCurrent(api_call_type, newsletters, cur) ==
    IF api_call_type = SET THEN cur ELSE Range(newsletters)

\* lines 393-402: the slugs to unsubscribe
Unsubs(api_call_type, newsletters, cur) ==
    IF api_call_type = SET
    THEN (IF cur # {} THEN cur \ Range(newsletters) ELSE {})
    ELSE Range(newsletters)

\* news.utils.parse_newsletters: the slug -> bool map; the unsubscriptions
\* are written last and overwrite
parse_newsletters(api_call_type, newsletters, cur_newsletters) ==
    LET cur == CurSet(cur_newsletters)
        nls == IF Expanding(api_call_type)
               THEN SetToSeq(ExpandGroups(newsletters)) ELSE newsletters
        subs == IF Subscribing(api_call_type) THEN Range(nls) ELSE {}
        unsubs == IF Unsubscribing(api_call_type)
                  THEN Unsubs(api_call_type, nls, cur) ELSE {}
    IN [nl \in subs \cup unsubs |-> nl \notin unsubs]

\* line 416: [x.strip() for x in data.get('newsletters', '').split(',')]
RequestedNewsletters(csv) ==
    LET pieces == Split(csv, ",") IN [i \in 1..Len(pieces) |-> Strip(pieces[i])]

\* the characters of the newsletters field of a request
CsvChars == {"a", "b", "g", ",", " "}

\* the request fields: newsletters as submitted, the optin flag if any, the
\* token if any (0: no 'token' key)
RequestData ==
    [newsletters : SeqsUpTo(CsvChars, MaxCsvLen), optin : {"absent", "true", "false"},
     token : 0..MaxTokens]

NoContact ==
    [exists |-> FALSE, token |-> 0, optin |-> FALSE, newsletters |-> {}, email |-> FALSE]

\* news.utils.get_user_data(token, email) on the store's record of the
\* email: sfdc.get looks the contact up by token when one is given, else by
\* email; None when it is not found
get_user_data(token, stored) ==
    IF token # 0
    THEN (IF stored.exists /\ stored.token = token THEN stored ELSE NoContact)
    ELSE stored

\* user_data.get('newsletters', None) of lines 417-420
CurNewsletters(user_data) ==
    IF user_data.exists THEN [isNone |-> FALSE, items |-> user_data.newsletters]
    ELSE [isNone |-> TRUE, items |-> {}]

\* lines 426-435: the optin value of data after opt-in resolution
ResolveOptin(data, user_data, map) ==
    IF ~(data.optin = "true" \/ (user_data.exists /\ user_data.optin))
    THEN LET to_subscribe == {nl \in DOMAIN map : map[nl]}
         IN IF \E n \in Newsletters :
                   n.slug \in to_subscribe /\ ~n.requires_double_optin
            THEN "true" ELSE "false"
    ELSE data.optin

\* a create followed by an update
WriteCallsBoth(user_data) == <<"create", "update">>

\* lines 437-448: sfdc.add(data) when no user was found, else
\* sfdc.update(user_data, data)
WriteCalls(user_data) == IF ~user_data.exists THEN <<"create">> ELSE <<"update">>

\* line 450: return data['token'], created; KeyError when data has no token
Return(token, created) ==
    IF token = 0 THEN [kind |-> "KeyError", token |-> 0, created |-> created]
    ELSE [kind |-> "value", token |-> token, created |-> created]

NoReturn == [kind |-> "none", token |-> 0, created |-> FALSE]

\* the store's record after a create or update carrying the vendor form of
\* data: Token__c is written when data has a token, the newsletter fields of
\* the delta are set
Written(stored, token, optin, map) ==
    [exists |-> TRUE,
     email |-> stored.exists => stored.email,
     token |-> IF token = 0 THEN stored.token ELSE token,
     optin |-> IF optin = "absent" THEN stored.optin ELSE optin = "true",
     newsletters |-> (stored.newsletters \cup {nl \in DOMAIN map : map[nl]})
                         \ {nl \in DOMAIN map : ~map[nl]}]

\* news.backends.sfdc.FIELD_MAP, the fields an update can be addressed by
FIELD_MAP == [id |-> "Id", email |-> "Email", token |-> "Token__c"]

\* SFDC.update, lines 157-163: the contact_id the update is addressed to,
\* record['id'] or '{}/{}'.format(FIELD_MAP[fn], record[fn]); the choice
\* looks at the keys of the record, not at their values (0: None or empty)
ContactId(record) ==
    IF "id" \in record.keys THEN [raised |-> "none", fn |-> "Id", value |-> record.id]
    ELSE IF "token" \in record.keys \/ "email" \in record.keys
    THEN LET fn == IF "token" \in record.keys THEN "token" ELSE "email"
         IN [raised |-> "none", fn |-> FIELD_MAP[fn], value |-> record[fn]]
    ELSE [raised |-> "KeyError", fn |-> "none", value |-> 0]

NoContactId == [raised |-> "none", fn |-> "none", value |-> 0]

\* the dict get_user_data returns for a contact the store holds: from_vendor
\* copies the mapped fields the store sent, Token__c and Email among them
\* also when null, and get_user_data pops 'id' (IGNORE_USER_FIELDS)
UserRecord(user_data) ==
    [keys |-> {"token", "email"}, id |-> 0, token |-> user_data.token,
     email |-> IF user_data.email THEN 1 ELSE 0]

\* whether the store finds the contact it holds under contact_id
Resolves(contact_id, stored) ==
    /\ stored.exists
    /\ contact_id.raised = "none"
    /\ contact_id.value # 0
    /\ contact_id.fn = FIELD_MAP.token => contact_id.value = stored.token

\* what the store does with an update under a key that finds no contact: it
\* answers not-found (SalesforceResourceNotFound leaves sfdc.update) or it
\* accepts the write for a record that is not the contact
UnresolvedAnswers == {"not_found", "elsewhere"}

\* news.tasks.upsert_contact up to its write: what it computes from the
\* request and the fetched user_data, `minted` tokens having been generated
Reconciliation(api_call_type, data, user_data, minted) ==
    LET newsletters == RequestedNewsletters(data.newsletters)
        cur_newsletters == CurNewsletters(user_data)
        map == parse_newsletters(api_call_type, newsletters, cur_newsletters)
        optin == ResolveOptin(data, user_data, map)
        mint == ~user_data.exists \/ user_data.token = 0
        \* data['token'] after lines 437-445
        token == IF mint THEN minted + 1 ELSE data.token
        \* to_vendor line 55: contact[news_map[k]] = v
        keyError == \E k \in DOMAIN map : ~InNewsMap(k)
    IN [newsletters |-> newsletters, cur |-> cur_newsletters, map |-> map,
        optin |-> optin, mint |-> mint, token |-> token, keyError |-> keyError,
        contact_id |-> IF user_data.exists /\ ~keyError
                       THEN ContactId(UserRecord(user_data)) ELSE NoContactId,
        writes |-> IF keyError THEN <<>> ELSE WriteCalls(user_data),
        ret |-> IF keyError THEN NoReturn ELSE Return(token, ~user_data.exists),
        outcome |-> IF keyError THEN "KeyError"
                    ELSE IF user_data.exists THEN "updated" ELSE "created"]

NoReconcile ==
    [phase |-> "idle", api |-> "none",
     data |-> [newsletters |-> <<>>, optin |-> "absent", token |-> 0],
     repeat |-> FALSE, newsletters |-> <<>>, cur |-> [isNone |-> TRUE, items |-> {}],
     map |-> <<>>, before |-> NoContact, outcome |-> "none", optin |-> "absent",
     writes |-> <<>>, ret |-> NoReturn, contact_id |-> NoContactId,
     dispatched |-> <<>>]

\* news.tasks.upsert_contact, with sfdc.add / sfdc.update and to_vendor, for
\* the job `job`: r is what it computes from user_data. Nothing in lines
\* 390-450 calls send_welcomes: the job dispatches no message
upsert_contact(job, r, user_data) ==
    /\ r.mint => tokens_minted < MaxTokens
    /\ tokens_minted' = IF r.mint THEN tokens_minted + 1 ELSE tokens_minted
    /\ LET done == [job EXCEPT !.phase = "done", !.newsletters = r.newsletters,
                               !.cur = r.cur, !.map = r.map, !.before = user_data,
                               !.outcome = r.outcome, !.optin = r.optin,
                               !.writes = r.writes, !.ret = r.ret,
                               !.contact_id = r.contact_id, !.dispatched = <<>>]
       IN IF r.keyError
          THEN contact' = contact /\ rc' = done
          ELSE IF r.writes = <<"update">> /\ ~Resolves(r.contact_id, contact)
          THEN /\ contact' = contact
               /\ \E answer \in UnresolvedAnswers :
                     rc' = [done EXCEPT !.outcome = answer,
                                        !.ret = IF answer = "not_found"
                                                THEN NoReturn ELSE r.ret]
          ELSE /\ contact' = Written(contact, r.token, r.optin, r.map)
               /\ rc' = done

\* news.tasks.upsert_user for a submitted request: the contact is fetched,
\* then reconciled; a request carries no token or the token of the contact
upsert_user ==
    /\ rc.phase = "idle"
    /\ \E api_call_type \in ApiCallTypes, data \in RequestData :
          /\ data.token \in {0, contact.token}
          /\ LET job == [NoReconcile EXCEPT !.api = api_call_type, !.data = data]
                 r == Reconciliation(api_call_type, data,
                                     get_user_data(data.token, contact), tokens_minted)
             IN upsert_contact(job, r, get_user_data(data.token, contact))

\* the same request is submitted and run once more after it has been applied
SubmitAgain ==
    /\ rc.phase = "done"
    /\ rc.outcome \in {"created", "updated"}
    /\ ~rc.repeat
    /\ LET user_data == get_user_data(rc.data.token, contact)
           job == [rc EXCEPT !.repeat = TRUE]
       IN upsert_contact(job, Reconciliation(rc.api, rc.data, user_data, tokens_minted),
                         user_data)

\* the finished job leaves the worker
UpsertDone ==
    /\ rc.phase = "done"
    /\ rc' = NoReconcile
    /\ UNCHANGED <<contact, tokens_minted>>

\* the contacts the store holds that were not created here: lines 444-445
\* provide for a contact found without a token
ExternalContacts ==
    {[exists |-> TRUE, token |-> 0, optin |-> FALSE, newsletters |-> nls, email |-> TRUE] :
        nls \in {{}, {<<"b">>}}}

\* another system creates the contact in the store
ExternalContact ==
    /\ rc.phase = "idle"
    /\ ~contact.exists
    /\ contact' \in ExternalContacts
    /\ UNCHANGED <<tokens_minted, rc, jobs>>

InitRecon ==
    /\ contact = NoContact
    /\ tokens_minted = 0
    /\ rc = NoReconcile

NextRecon ==
    \/ upsert_user /\ UNCHANGED <<taskVars, sfVars, msgVars, jobs, sj>>
    \/ SubmitAgain /\ UNCHANGED <<taskVars, sfVars, msgVars, jobs, sj>>
    \/ UpsertDone /\ UNCHANGED <<taskVars, sfVars, msgVars, jobs, sj>>
    \/ ExternalContact /\ UNCHANGED <<taskVars, sfVars, msgVars, sj>>

\* ------------------------------- reconciliation jobs on parallel workers
Workers == 1..MaxWorkers

\* the requests of the jobs that run in parallel
RaceData ==
    [newsletters : {<<"a">>, <<"b">>}, optin : {"absent"}, token : 0..MaxTokens]

NoJob ==
    [phase |-> "idle", api |-> "none",
     data |-> [newsletters |-> <<>>, optin |-> "absent", token |-> 0],
     user_data |-> NoContact, outcome |-> "none", token |-> 0]

\* upsert_user.delay(api_call_type, data): worker w receives the job
Delay(w) ==
    /\ jobs[w].phase = "idle"
    /\ \E api_call_type \in ApiCallTypes, data \in RaceData :
          /\ data.token \in {0, contact.token}
          /\ jobs' = [jobs EXCEPT ![w] = [NoJob EXCEPT !.phase = "queued",
                                             !.api = api_call_type, !.data = data]]
    /\ UNCHANGED <<contact, tokens_minted>>

\* line 401: get_user_data(data.get('token'), data.get('email'))
Fetch(w) ==
    /\ jobs[w].phase = "queued"
    /\ jobs' = [jobs EXCEPT ![w].phase = "fetched",
                            ![w].user_data = get_user_data(jobs[w].data.token, contact)]
    /\ UNCHANGED <<contact, tokens_minted>>

\* what the store does with a create for an email it already holds: the
\* store decides, it refuses the contact or keeps a second one
CreateAnswers == {"rejected", "duplicate"}

\* lines 404-450 on the user_data fetched before: the write goes to the
\* store as it is now
Write(w) ==
    /\ jobs[w].phase = "fetched"
    /\ LET job == jobs[w]
           r == Reconciliation(job.api, job.data, job.user_data, tokens_minted)
       IN /\ r.mint => tokens_minted < MaxTokens
          /\ tokens_minted' = IF r.mint THEN tokens_minted + 1 ELSE tokens_minted
          /\ IF r.keyError
             THEN /\ contact' = contact
                  /\ jobs' = [jobs EXCEPT ![w].phase = "done", ![w].outcome = "KeyError"]
             ELSE IF r.writes = <<"create">> /\ contact.exists
             THEN /\ contact' = contact
                  /\ \E answer \in CreateAnswers :
                        jobs' = [jobs EXCEPT ![w].phase = "done", ![w].outcome = answer,
                                             ![w].token = r.token]
             ELSE IF r.writes = <<"update">> /\ ~Resolves(r.contact_id, contact)
             THEN /\ contact' = contact
                  /\ \E answer \in UnresolvedAnswers :
                        jobs' = [jobs EXCEPT ![w].phase = "done", ![w].outcome = answer,
                                             ![w].token = r.token]
             ELSE /\ contact' = Written(contact, r.token, r.optin, r.map)
                  /\ jobs' = [jobs EXCEPT ![w].phase = "done", ![w].outcome = r.outcome,
                                          ![w].token = r.token]

InitRace == jobs = [w \in Workers |-> NoJob]

NextRace ==
    \/ \E w \in Workers : Delay(w) /\ UNCHANGED <<taskVars, sfVars, msgVars, rc, sj>>
    \/ \E w \in Workers : Fetch(w) /\ UNCHANGED <<taskVars, sfVars, msgVars, rc, sj>>
    \/ \E w \in Workers : Write(w) /\ UNCHANGED <<taskVars, sfVars, msgVars, rc, sj>>
    \/ ExternalContact /\ UNCHANGED <<taskVars, sfVars, msgVars, sj>>

\* ------------------------------------- jobs that call the contact store
\* the errors the store client raises in a lookup, create or update: a
\* network failure (requests' RequestException), the session-expired error of
\* the second attempt (sfdc.py:97), an error the store declares, a failed
\* authentication of the refresh (sfdc.py:96)
StoreErrors ==
    {"RequestException", "SalesforceExpiredSession", "SalesforceGeneralError",
     "SalesforceAuthenticationFailed"}

StoreAnswers == {"ok"} \cup StoreErrors

\* the class an except clause sees: RequestException is an IOError, the
\* errors of simple_salesforce derive from Exception alone
RaisedClass(err) == IF err = "RequestException" THEN "IOError" ELSE err

\* news.utils.get_user_data, lines 229-240: the network failure and the
\* failed authentication are raised as NewsletterException, any other error
\* of sfdc.get leaves get_user_data as it is
LookupRaises(err) ==
    IF err \in {"RequestException", "SalesforceAuthenticationFailed"}
    THEN "NewsletterException" ELSE RaisedClass(err)

Raise(class) == [kind |-> "raise", class |-> class, msg |-> <<>>]

ReturnNone == [kind |-> "return", class |-> "none", msg |-> <<>>]

\* the data dict of upsert_user.delay(api_call_type, data); parsed: the
\* 'newsletters' entry is no longer the submitted string but the dict that
\* line 424 stores in it
JobData ==
    [newsletters : {<<"a">>, <<"b">>}, parsed : {FALSE}, optin : {"absent"}, token : {0}]

\* news.tasks.upsert_user (lines 390-401) with upsert_contact (404-450), the
\* store answering the lookup with `lookup` and the write with `write`: what
\* leaves the function, the data dict and the store afterwards
UpsertBody(api_call_type, data, stored, lookup, write, minted) ==
    LET user_data == get_user_data(data.token, stored)
        r == Reconciliation(api_call_type, data, user_data, minted)
        \* lines 424, 435, 439 and 445 assign into the dict of the caller
        mutated == [data EXCEPT !.parsed = TRUE, !.optin = r.optin, !.token = r.token]
        minted1 == IF r.mint THEN minted + 1 ELSE minted
        Result(out, error, d, c, n, wrote) ==
            [out |-> out, error |-> error, data |-> d, contact |-> c, minted |-> n,
             wrote |-> wrote]
    IN IF lookup # "ok"
       THEN Result(Raise(LookupRaises(lookup)), lookup, data, stored, minted, FALSE)
       ELSE IF data.parsed
       \* line 416: data.get('newsletters', '').split(',') on a dict
       THEN Result(Raise("AttributeError"), "none", data, stored, minted, FALSE)
       ELSE IF r.keyError
       THEN Result(Raise("KeyError"), "none", mutated, stored, minted1, FALSE)
       ELSE IF write # "ok"
       THEN Result(Raise(RaisedClass(write)), write, mutated, stored, minted1, FALSE)
       ELSE Result(IF r.ret.kind = "KeyError" THEN Raise("KeyError") ELSE ReturnNone,
                   "none", mutated, Written(stored, r.token, r.optin, r.map), minted1,
                   TRUE)

NoStoreJob ==
    [name |-> "none", api |-> "none",
     data |-> [newsletters |-> <<>>, parsed |-> FALSE, optin |-> "absent", token |-> 0],
     submitted |-> [newsletters |-> <<>>, parsed |-> FALSE, optin |-> "absent",
                    token |-> 0],
     error |-> "none", wrote |-> FALSE, token |-> 0, before |-> NoContact, writes |-> 0]

\* upsert_user.delay(api_call_type, data)
SubmitUpsert ==
    /\ submitted < MaxJobs
    /\ broker = {}
    /\ \E api_call_type \in ApiCallTypes, data \in JobData :
          /\ broker' = {[id |-> submitted + 1, name |-> "news.tasks.upsert_user",
                         retries |-> 0, args |-> <<api_call_type>>, kwargs |-> {},
                         countdown |-> 0]}
          /\ sj' = [NoStoreJob EXCEPT !.name = "news.tasks.upsert_user",
                                      !.api = api_call_type, !.data = data,
                                      !.submitted = data]
    /\ submitted' = submitted + 1
    /\ last_exec' = NoExec
    /\ attempts' = 0
    /\ UNCHANGED <<MAINTENANCE_MODE, STORE_TASK_FAILURES, QueuedTask, FailedTask,
                   statsd_raises, contact, tokens_minted>>

\* the worker runs the upsert_user message: wrapped() around the function,
\* which works on the dict the arguments refer to
ExecuteUpsert ==
    \E m \in broker, lookup \in StoreAnswers, write \in StoreAnswers :
        /\ m.name = "news.tasks.upsert_user"
        /\ LET b == UpsertBody(sj.api, sj.data, contact, lookup, write, tokens_minted)
               runs == ~statsd_raises /\ ~Deferred(MAINTENANCE_MODE, m.name)
           IN /\ b.minted <= MaxTokens
              /\ wrapped(m, b.out)
              /\ contact' = IF runs THEN b.contact ELSE contact
              /\ tokens_minted' = IF runs THEN b.minted ELSE tokens_minted
              /\ sj' = IF runs
                       THEN [sj EXCEPT !.data = b.data, !.error = b.error,
                                       !.wrote = b.wrote]
                       ELSE sj

\* the records SFDC.update can be called with: any of the keys 'id',
\* 'token', 'email', each with a value or empty (0)
UpdateRecords ==
    [keys : SUBSET {"id", "token", "email"}, id : {0, 1}, token : 0..MaxTokens,
     email : {0, 1}]

\* the contacts the store may hold when SFDC.update is called
StoredContacts ==
    {[exists |-> TRUE, token |-> t, optin |-> FALSE, newsletters |-> {}, email |-> TRUE] :
        t \in {0, 1}}

\* the store holds a contact
StoreHolds ==
    /\ sj = NoStoreJob
    /\ ~contact.exists
    /\ contact' \in StoredContacts
    /\ UNCHANGED <<tokens_minted, sj>>

\* SFDC.update(record, data), lines 148-165, with data = {'optin': True}:
\* the key is chosen, or KeyError raised, and the write sent under the key
SFDCUpdate ==
    /\ sj = NoStoreJob
    /\ \E record \in UpdateRecords, answer \in UnresolvedAnswers :
          LET contact_id == ContactId(record)
              call == [name |-> "SFDC.update", record |-> record,
                       contact_id |-> contact_id, raised |-> contact_id.raised,
                       sent |-> contact_id.raised = "none", wrote |-> FALSE]
          IN IF contact_id.raised # "none"
             THEN sj' = call /\ contact' = contact
             ELSE IF Resolves(contact_id, contact)
             THEN /\ sj' = [call EXCEPT !.wrote = TRUE]
                  /\ contact' = Written(contact, 0, "true", <<>>)
             ELSE /\ sj' = [call EXCEPT !.raised = IF answer = "not_found"
                                                   THEN "SalesforceResourceNotFound"
                                                   ELSE "none"]
                  /\ contact' = contact
    /\ UNCHANGED tokens_minted

\* the call is over
UpdateReturns ==
    /\ sj.name = "SFDC.update"
    /\ sj' = NoStoreJob
    /\ UNCHANGED <<contact, tokens_minted>>

NextUpdate ==
    \/ StoreHolds /\ UNCHANGED <<taskVars, sfVars, rc, jobs, msgVars>>
    \/ SFDCUpdate /\ UNCHANGED <<taskVars, sfVars, rc, jobs, msgVars>>
    \/ UpdateReturns /\ UNCHANGED <<taskVars, sfVars, rc, jobs, msgVars>>

\* the contacts the store may hold when confirm_user runs: with a token,
\* opted in or not, with an email or without
ConfirmContacts ==
    {[exists |-> TRUE, token |-> 1, optin |-> o, newsletters |-> {}, email |-> e] :
        o \in BOOLEAN, e \in BOOLEAN}

\* the store holds a contact
ConfirmHolds ==
    /\ submitted = 0
    /\ ~contact.exists
    /\ contact' \in ConfirmContacts
    /\ UNCHANGED <<taskVars, tokens_minted, sj>>

\* no contact counts as confirmed
AlreadyConfirmedNever(user_data) == FALSE

\* line 612: if user_data['optin']
AlreadyConfirmed(user_data) == user_data.optin

\* news.tasks.confirm_user(token), lines 591-618, the store answering the
\* lookup with `lookup` and the update with `write`
ConfirmBody(token, stored, lookup, write) ==
    LET user_data == get_user_data(token, stored)
        Result(out, error, c, wrote) ==
            [out |-> out, error |-> error, contact |-> c, wrote |-> wrote,
             before |-> IF lookup = "ok" THEN user_data ELSE NoContact]
    IN IF lookup # "ok"
       THEN Result(Raise(LookupRaises(lookup)), lookup, stored, FALSE)
       ELSE IF ~user_data.exists
       THEN Result(Raise("BasketError"), "none", stored, FALSE)
       ELSE IF AlreadyConfirmed(user_data)
       THEN Result(ReturnNone, "none", stored, FALSE)
       ELSE IF ~user_data.email
       THEN Result(Raise("BasketError"), "none", stored, FALSE)
       ELSE IF write # "ok"
       THEN Result(Raise(RaisedClass(write)), write, stored, FALSE)
       ELSE IF Resolves(ContactId(UserRecord(user_data)), stored)
       THEN Result(ReturnNone, "none", Written(stored, 0, "true", <<>>), TRUE)
       ELSE Result(Raise("SalesforceResourceNotFound"), "none", stored, FALSE)

\* confirm_user.delay(token)
SubmitConfirm ==
    /\ submitted < MaxConfirms
    /\ broker = {}
    /\ \E token \in 1..MaxTokens :
          /\ broker' = {[id |-> submitted + 1, name |-> "news.tasks.confirm_user",
                         retries |-> 0, args |-> <<token>>, kwargs |-> {},
                         countdown |-> 0]}
          /\ sj' = [NoStoreJob EXCEPT !.name = "news.tasks.confirm_user",
                                      !.token = token, !.writes = sj.writes]
    /\ submitted' = submitted + 1
    /\ last_exec' = NoExec
    /\ attempts' = 0
    /\ UNCHANGED <<MAINTENANCE_MODE, STORE_TASK_FAILURES, QueuedTask, FailedTask,
                   statsd_raises, contact, tokens_minted>>

\* the worker runs the confirm_user message
ExecuteConfirm ==
    \E m \in broker, lookup \in StoreAnswers, write \in StoreAnswers :
        /\ m.name = "news.tasks.confirm_user"
        /\ LET b == ConfirmBody(m.args[1], contact, lookup, write)
               runs == ~statsd_raises /\ ~Deferred(MAINTENANCE_MODE, m.name)
           IN /\ wrapped(m, b.out)
              /\ contact' = IF runs THEN b.contact ELSE contact
              /\ sj' = IF runs
                       THEN [sj EXCEPT !.before = b.before, !.error = b.error,
                                       !.wrote = b.wrote,
                                       !.writes = IF b.wrote THEN @ + 1 ELSE @]
                       ELSE sj
        /\ UNCHANGED tokens_minted

NextConfirm ==
    \/ ConfirmHolds /\ UNCHANGED <<sfVars, rc, jobs, msgVars>>
    \/ SubmitConfirm /\ UNCHANGED <<sfVars, rc, jobs, msgVars>>
    \/ ExecuteConfirm /\ UNCHANGED <<sfVars, rc, jobs, msgVars>>

\* ------------------------------------------- update_get_involved
\* news/utils.py line 346: def parse_newsletters(api_call_type, newsletters,
\* cur_newsletters)
parse_newsletters_params == <<"api_call_type", "newsletters", "cur_newsletters">>

\* line 309: parse_newsletters(record, SUBSCRIBE, newsletters, cur_newsletters)
parse_newsletters_args == <<"record", "SUBSCRIBE", "newsletters", "cur_newsletters">>

\* a call with positional arguments of a function with these parameters, none
\* of them with a default: TypeError unless there is one argument for each
CallRaises(params, args) == IF Len(args) # Len(params) THEN "TypeError" ELSE "none"

\* `a, b = value` for a value of n members: ValueError unless n is two
UnpackRaises(n) == IF n # 2 THEN "ValueError" ELSE "none"

\* what get_user_data(email=email) returns at line 274: None, or the user
\* with the newsletters held
InvolvedUsers ==
    {[exists |-> FALSE, newsletters |-> {}]} \cup
    {[exists |-> TRUE, newsletters |-> n] : n \in SUBSET {"about-mozilla", "get-involved"}}

\* one character of str.upper()
UpperChar(c) ==
    CASE c = "t" -> "T"
      [] c = "h" -> "H"
      [] c = "e" -> "E"
      [] OTHER -> c

\* the email_format arguments of a request
InvolvedFormats == {<<>>, <<"T">>, <<"t", "e">>, <<"H">>, <<"h", "t">>}

\* line 271: 'T' if email_format.upper().startswith('T') else 'H'
InvolvedFormat(email_format) ==
    IF Len(email_format) > 0 /\ UpperChar(email_format[1]) = "T" THEN "T" ELSE "H"

\* lines 276-296: the keys of the record
InvolvedRecord(user, source_url) ==
    {"EMAIL_ADDRESS_", "MODIFIED_DATE_", "LANGUAGE_ISO2", "COUNTRY_", "GET_INVOLVED_FLG",
     "TOKEN"}
    \cup (IF user.exists /\ "get-involved" \in user.newsletters
          THEN {} ELSE {"GET_INVOLVED_DATE"})
    \cup (IF ~user.exists THEN {"EMAIL_FORMAT_"} ELSE {})
    \cup (IF ~user.exists /\ source_url THEN {"SOURCE_URL"} ELSE {})

\* news.tasks.update_get_involved, lines 261-329: known says whether the
\* interest of line 266 exists, lookup is the answer of the store to line 274
update_get_involved(known, email_format, subscribe, source_url, lookup, user) ==
    LET Result(raised, delta, upserts, welcome, welcomes) ==
            [raised |-> raised, delta |-> delta,
             format |-> IF known THEN InvolvedFormat(email_format) ELSE "none",
             record |-> IF upserts > 0 THEN InvolvedRecord(user, source_url) ELSE {},
             upserts |-> upserts, welcome |-> welcome, welcomes |-> welcomes]
        call == CallRaises(parse_newsletters_params, parse_newsletters_args)
        \* the dict of line 309 has the one key 'about-mozilla'
        unpack == UnpackRaises(Cardinality({"about-mozilla"}))
    IN IF ~known
       THEN Result("none", FALSE, 0, FALSE, FALSE)
       ELSE IF lookup # "ok"
       THEN Result(LookupRaises(lookup), FALSE, 0, FALSE, FALSE)
       ELSE IF subscribe /\ call # "none"
       THEN Result(call, FALSE, 0, FALSE, FALSE)
       ELSE IF subscribe /\ unpack # "none"
       THEN Result(unpack, TRUE, 0, FALSE, FALSE)
       ELSE Result("none", subscribe, 2, TRUE, subscribe)

\* the worker runs update_get_involved
GetInvolved ==
    /\ sj = NoStoreJob
    /\ \E known \in BOOLEAN, subscribe \in BOOLEAN, source_url \in BOOLEAN,
          lookup \in StoreAnswers, user \in InvolvedUsers,
          email_format \in InvolvedFormats :
          sj' = [name |-> "news.tasks.update_get_involved", known |-> known,
                 email_format |-> email_format,
                 subscribe |-> subscribe, source_url |-> source_url, lookup |-> lookup,
                 user |-> IF lookup = "ok" THEN user ELSE [exists |-> FALSE, newsletters |-> {}],
                 out |-> update_get_involved(known, email_format, subscribe, source_url,
                                             lookup, user)]
    /\ UNCHANGED <<contact, tokens_minted>>

\* the job is over
InvolvedReturns ==
    /\ sj # NoStoreJob
    /\ sj.name = "news.tasks.update_get_involved"
    /\ sj' = NoStoreJob
    /\ UNCHANGED <<contact, tokens_minted>>

NextInvolved ==
    \/ GetInvolved /\ UNCHANGED <<taskVars, sfVars, rc, jobs, msgVars>>
    \/ InvolvedReturns /\ UNCHANGED <<taskVars, sfVars, rc, jobs, msgVars>>

\* ------------------------------------------- update_student_ambassadors
\* lines 332-344
FSA_FIELDS ==
    ("EMAIL_ADDRESS" :> "Email") @@ ("TOKEN" :> "Token__c")
    @@ ("FIRST_NAME" :> "FirstName") @@ ("LAST_NAME" :> "LastName")
    @@ ("COUNTRY_" :> "MailingCountryCode") @@ ("STUDENTS_SCHOOL" :> "FSA_School__c")
    @@ ("STUDENTS_GRAD_YEAR" :> "FSA_Grad_Year__c")
    @@ ("STUDENTS_MAJOR" :> "FSA_Major__c") @@ ("STUDENTS_CITY" :> "FSA_City__c")
    @@ ("STUDENTS_CURRENT_STATUS" :> "FSA_Current_Status__c")
    @@ ("STUDENTS_ALLOW_SHARE" :> "FSA_Allow_Info_Shared__c")

\* the keys the data of a request may hold
AmbassadorKeys ==
    {"EMAIL_ADDRESS", "FIRST_NAME", "LAST_NAME", "STUDENTS_SCHOOL", "STUDENTS_MAJOR",
     "STUDENTS_ALLOW_SHARE", "TOKEN", "OTHER"}

\* line 352, `for k, fn in FSA_FIELDS`: the loop runs over the keys of the
\* dict and unpacks each key, a string, into its characters; it ends in
\* ValueError as soon as a key has not two of them
LoopRaises(fields) ==
    IF \E key \in DOMAIN fields : UnpackRaises(Len(key)) # "none"
    THEN "ValueError" ELSE "none"

\* news.tasks.update_student_ambassadors(data, token), lines 346-359; the
\* names k and fn of a loop that does not raise are single characters, which
\* are no keys of data, so update_data stays empty and line 355 never runs
update_student_ambassadors(keys, token) ==
    LET raised == LoopRaises(FSA_FIELDS)
        user_data == [keys |-> {"token"}, id |-> 0, token |-> token, email |-> 0]
    IN [data |-> keys \cup {"TOKEN"},
        raised |-> raised,
        updates |-> IF raised = "none" THEN 1 ELSE 0,
        contact_id |-> IF raised = "none" THEN ContactId(user_data) ELSE NoContactId,
        update_data |-> {},
        converted |-> FALSE]

\* the worker runs update_student_ambassadors
StudentAmbassadors ==
    /\ sj = NoStoreJob
    /\ \E keys \in SUBSET AmbassadorKeys, token \in 1..MaxTokens :
          sj' = [name |-> "news.tasks.update_student_ambassadors", keys |-> keys,
                 token |-> token,
                 out |-> update_student_ambassadors(keys, token)]
    /\ UNCHANGED <<contact, tokens_minted>>

\* the job is over
AmbassadorsReturns ==
    /\ sj # NoStoreJob
    /\ sj.name = "news.tasks.update_student_ambassadors"
    /\ sj' = NoStoreJob
    /\ UNCHANGED <<contact, tokens_minted>>

NextAmbassadors ==
    \/ StudentAmbassadors /\ UNCHANGED <<taskVars, sfVars, rc, jobs, msgVars>>
    \/ AmbassadorsReturns /\ UNCHANGED <<taskVars, sfVars, rc, jobs, msgVars>>

InitJob == sj = NoStoreJob

NextJob ==
    \/ SubmitUpsert /\ UNCHANGED <<sfVars, rc, jobs, msgVars>>
    \/ ExecuteUpsert /\ UNCHANGED <<sfVars, rc, jobs, msgVars>>

\* ------------------------------------------------------ message helpers
None == [isNone |-> TRUE, s |-> <<>>]

PyStr(s) == [isNone |-> FALSE, s |-> s]

\* Python truth of a str-or-None
Truthy(x) == ~x.isNone /\ x.s # <<>>

\* the language prefix not cut to two letters
mogrify_message_id_whole_lang(message_id, lang, format) ==
    LET result == IF Truthy(lang)
                  THEN Lower(lang.s) \o <<"_">> \o message_id
                  ELSE message_id
    IN IF format = "T" THEN result \o <<"_", "T">> ELSE result

\* news.tasks.mogrify_message_id
mogrify_message_id(message_id, lang, format) ==
    LET result == IF Truthy(lang)
                  THEN Prefix(Lower(lang.s), 2) \o <<"_">> \o message_id
                  ELSE message_id
    IN IF format = "T" THEN result \o <<"_", "T">> ELSE result

LangChars == {"f", "r", "p", "t", "F", "R"}

MogrifyLangs == {None} \cup {PyStr(l) : l \in SeqsUpTo(LangChars, MaxLangLen)}

MessageIds == {<<"w", "e", "l", "c", "o", "m", "e">>, <<"v">>}

Formats == {"H", "T"}

NoMogrify == [message_id |-> <<>>, lang |-> None, format |-> "H", result |-> <<>>, done |-> FALSE]

\* a call of mogrify_message_id
Mogrify ==
    /\ ~mg.done /\ ~sw.done
    /\ \E message_id \in MessageIds, lang \in MogrifyLangs, format \in Formats :
          mg' = [message_id |-> message_id, lang |-> lang, format |-> format,
                 result |-> mogrify_message_id(message_id, lang, format), done |-> TRUE]
    /\ UNCHANGED sw

\* the contact's language code, supported by the newsletter or not
WelcomeLangNoFallback(nl, lang) == Lower(Prefix(lang, 2))

\* lines 573-579: the language of the welcome of newsletter nl for a contact
\* whose user_data.get('lang', 'en') is lang
WelcomeLang(nl, lang) ==
    LET languages == {Lower(Prefix(nl.language_list[i], 2)) : i \in 1..Len(nl.language_list)}
        lang_code == Lower(Prefix(lang, 2))
    IN IF lang_code \notin languages THEN <<"e", "n">> ELSE lang_code

\* lines 569-581: the mogrified welcome ids in the order of the loop, one for
\* each newsletter that has a welcome
RECURSIVE WelcomeIds(_, _, _)
WelcomeIds(newsletters, lang, format) ==
    IF newsletters = <<>> THEN <<>>
    ELSE LET nl == Head(newsletters)
             welcome == Strip(nl.welcome)
             rest == WelcomeIds(Tail(newsletters), lang, format)
         IN IF welcome = <<>> THEN rest
            ELSE <<mogrify_message_id(welcome, PyStr(WelcomeLang(nl, lang)), format)>> \o rest

\* one send per newsletter, the ids not collected in a set
DispatchesPerNewsletter(ids) == ids

\* lines 566-588: the ids are collected in a set and each member is sent
\* with send_message.delay
Dispatches(ids) == SetToSeq(Range(ids))

\* news.tasks.send_welcomes: the send_message.delay calls it makes
send_welcomes(user_data, newsletter_slugs, format) ==
    IF newsletter_slugs = {} THEN <<>>
    ELSE LET newsletters == SetToSeq({n \in Newsletters : n.slug \in newsletter_slugs})
             lang == IF user_data.has_lang THEN user_data.lang ELSE <<"e", "n">>
         IN Dispatches(WelcomeIds(newsletters, lang, format))

\* the contacts send_welcomes is called for: lang missing, empty or a code
UserData ==
    {[has_lang |-> FALSE, lang |-> <<>>]}
    \cup {[has_lang |-> TRUE, lang |-> l] :
             l \in {<<>>, <<"e", "n">>, <<"f", "r">>, <<"F", "R">>, <<"d", "e">>,
                    <<"f", "r", "-", "C", "A">>}}

NoWelcomes ==
    [user_data |-> [has_lang |-> FALSE, lang |-> <<>>], newsletter_slugs |-> {},
     format |-> "H", dispatched |-> <<>>, done |-> FALSE]

\* a call of send_welcomes
SendWelcomes ==
    /\ ~mg.done /\ ~sw.done
    /\ \E user_data \in UserData, newsletter_slugs \in SUBSET NewsletterSlugs,
          format \in Formats :
          sw' = [user_data |-> user_data, newsletter_slugs |-> newsletter_slugs,
                 format |-> format,
                 dispatched |-> send_welcomes(user_data, newsletter_slugs, format),
                 done |-> TRUE]
    /\ UNCHANGED mg

\* the call returns to its caller
Returns ==
    /\ mg.done \/ sw.done
    /\ mg' = NoMogrify
    /\ sw' = NoWelcomes

InitMsg ==
    /\ mg = NoMogrify
    /\ sw = NoWelcomes

NextMsg ==
    \/ Mogrify /\ UNCHANGED <<taskVars, sfVars, reconVars, sendVars, sj>>
    \/ SendWelcomes /\ UNCHANGED <<taskVars, sfVars, reconVars, sendVars, sj>>
    \/ Returns /\ UNCHANGED <<taskVars, sfVars, reconVars, sendVars, sj>>

\* ------------------------------------------------- the send_message job
\* what sfmc.send_mail does: it returns, or raises
SendMailAnswers ==
    {[class |-> "none", msg |-> <<>>]}
    \cup {[class |-> c, msg |-> m] :
             c \in {"NewsletterException", "IOError"},
             m \in {<<"connection reset">>,
                    <<"Error: ", "Invalid Customer Key", ".">>,
                    <<"Error: ", "InvalidEmailAddress", " (400)">>}}

\* a cache that never holds an id
CachedBadNever(cache, message_id) == FALSE

\* line 479: BAD_MESSAGE_ID_CACHE.get(message_id, False)
CachedBad(cache, message_id) == message_id \in cache

\* every delivery error taken for an invalid key
InvalidKeyAnyError(answer) == answer.class # "none"

\* lines 485-488: except NewsletterException as e, with
\* 'Invalid Customer Key' in e.message
InvalidKey(answer) ==
    answer.class = "NewsletterException" /\ Contains(answer.msg, "Invalid Customer Key")

\* news.tasks.send_message for message_id when send_mail would answer
\* `answer`: how the body ends, the cache after it, whether send_mail was called
send_message(message_id, cache, answer) ==
    IF CachedBad(cache, message_id)
    THEN [out |-> [kind |-> "return", class |-> "none", msg |-> <<>>],
          cache |-> cache, called |-> FALSE]
    ELSE IF answer.class = "none"
    THEN [out |-> [kind |-> "return", class |-> "none", msg |-> <<>>],
          cache |-> cache, called |-> TRUE]
    ELSE IF InvalidKey(answer)
    THEN [out |-> [kind |-> "return", class |-> "none", msg |-> <<>>],
          cache |-> cache \cup {message_id}, called |-> TRUE]
    ELSE [out |-> [kind |-> "raise", class |-> answer.class, msg |-> answer.msg],
          cache |-> cache, called |-> TRUE]

NoSend == [id |-> 0, message_id |-> <<>>, called |-> FALSE, answer |-> NoExc]

\* send_message.delay(message_id, email, token, format)
SubmitSend ==
    /\ submitted < MaxSends
    /\ broker = {}
    /\ \E message_id \in MessageIds :
          broker' = {[id |-> submitted + 1, name |-> "news.tasks.send_message",
                      retries |-> 0, args |-> <<message_id>>, kwargs |-> {},
                      countdown |-> 0]}
    /\ submitted' = submitted + 1
    /\ last_exec' = NoExec
    /\ attempts' = 0
    /\ UNCHANGED <<MAINTENANCE_MODE, STORE_TASK_FAILURES, QueuedTask, FailedTask,
                   statsd_raises, sendVars>>

\* a worker executes the send_message job: wrapped() around the body
ExecuteSend ==
    \E m \in broker, answer \in SendMailAnswers :
        LET body == send_message(m.args[1], BAD_MESSAGE_ID_CACHE, answer)
            ran == ~Deferred(MAINTENANCE_MODE, m.name)
        IN /\ wrapped(m, body.out)
           /\ BAD_MESSAGE_ID_CACHE' = IF ran THEN body.cache ELSE BAD_MESSAGE_ID_CACHE
           /\ sm' = IF ran
                    THEN [id |-> m.id, message_id |-> m.args[1], called |-> body.called,
                          answer |-> IF body.called THEN answer ELSE NoExc]
                    ELSE sm

\* the cache drops an entry: entries expire
Evict ==
    /\ \E message_id \in BAD_MESSAGE_ID_CACHE :
          BAD_MESSAGE_ID_CACHE' = BAD_MESSAGE_ID_CACHE \ {message_id}
    /\ UNCHANGED <<taskVars, sm>>

InitSend ==
    /\ BAD_MESSAGE_ID_CACHE = {}
    /\ sm = NoSend

NextSend ==
    \/ SubmitSend /\ UNCHANGED <<sfVars, reconVars, mg, sw, sj>>
    \/ ExecuteSend /\ UNCHANGED <<sfVars, reconVars, mg, sw, sj>>
    \/ SetMaintenance /\ UNCHANGED <<sfVars, reconVars, msgVars, sj>>
    \/ Evict /\ UNCHANGED <<sfVars, reconVars, mg, sw, sj>>

\* ------------------------------------------------------- specifications
Init == InitTask /\ InitSF /\ InitRecon /\ InitRace /\ InitMsg /\ InitSend /\ InitJob

Next ==
    NextTask \/ NextTaskFair \/ NextGate \/ NextMetrics \/ NextSF \/ NextRecon \/ NextRace \/ NextMsg \/ NextSend \/ NextJob
        \/ NextUpdate \/ NextConfirm \/ NextInvolved \/ NextAmbassadors

\* the job wrapper, the gate and the retry engine
SpecTask == Init /\ [][NextTask]_vars

\* the same under fair scheduling: the worker takes every message the
\* broker holds, a delayed retry when its countdown is over
SpecTaskFair == Init /\ [][NextTaskFair]_vars /\ WF_taskVars(Execute)

\* the maintenance gate for jobs with keyword arguments
SpecGate == Init /\ [][NextGate]_vars

\* the job wrapper with a metrics sink that may be unavailable
SpecMetrics == Init /\ [][NextMetrics]_vars

\* upsert_user jobs under the wrapper, the store failing at will
SpecJob == Init /\ [][NextJob]_vars

\* calls of SFDC.update
SpecUpdate == Init /\ [][NextUpdate]_vars

\* confirm_user jobs under the wrapper
SpecConfirm == Init /\ [][NextConfirm]_vars

SpecInvolved == Init /\ [][NextInvolved]_vars

SpecAmbassadors == Init /\ [][NextAmbassadors]_vars

\* the session-refreshing client
SpecSF == Init /\ [][NextSF]_vars

\* the reconciliation of a contact's subscriptions
SpecRecon == Init /\ [][NextRecon]_vars

\* reconciliation jobs of one contact on parallel workers
SpecRace == Init /\ [][NextRace]_vars

\* the message helpers
SpecMsg == Init /\ [][NextMsg]_vars

\* send_message jobs under the wrapper
SpecSend == Init /\ [][NextSend]_vars

\* ---------------------------------------------------------- properties
\* message m of the broker is executed by this step
Executed(m) == m \in broker /\ m \notin broker' /\ submitted' = submitted

ExemptNames ==
    {"news.tasks.add_fxa_activity", "news.tasks.update_student_ambassadors",
     "news.tasks.add_sms_user", "news.tasks.add_sms_user_optin"}

\* C1: every execution of a wrapped job, first run or retry, invokes the
\* underlying function once iff the maintenance flag is false at that moment
\* or the task is one of the four exempt tasks; otherwise it creates exactly
\* one QueuedTask, for that task, and does not invoke the function.
C1_MaintenanceGate ==
    [][\A m \in broker :
          Executed(m) =>
              IF ~MAINTENANCE_MODE \/ m.name \in ExemptNames
              THEN /\ attempts' = attempts + 1
                   /\ QueuedTask' = QueuedTask
              ELSE /\ attempts' = attempts
                   /\ Len(QueuedTask') = Len(QueuedTask) + 1
                   /\ SubSeq(QueuedTask', 1, Len(QueuedTask)) = QueuedTask
                   /\ QueuedTask'[Len(QueuedTask')].name = m.name]_vars

\* a retry of a non-exempt task was executed under the flag and deferred
C1_Witness ==
    /\ last_exec.result = "queued"
    /\ last_exec.retries > 0
    /\ Len(QueuedTask) = 1
    /\ attempts = last_exec.retries

\* C2: every retry message, whoever asked for it, carries the delay
\* 60 * 2^n, n the retry count of the execution that failed.
C2_RetryDelay ==
    \A m \in broker : m.retries > 0 => m.countdown = 60 * (2 ^ (m.retries - 1))

\* C3 as stated: a job is attempted at most 8 times.
C3_AtMostEightAttempts == attempts <= 8

\* C3, amended: a job is attempted at most 9 times, the first execution and
\* 8 retries; a retry is scheduled only by an execution with retry count
\* below 8, and the execution with retry count 8 ends the job.
C3_AtMostNineAttempts ==
    /\ attempts <= 9
    /\ \A m \in broker : m.retries <= 8 /\ attempts <= m.retries
    /\ last_exec.result = "retry" => last_exec.retries < 8
    /\ (last_exec.invoked = 1 /\ last_exec.retries = 8) =>
           /\ last_exec.result \in {"success", "ignored", "suppressed", "failure"}
           /\ \A m \in broker : m.id # last_exec.id

\* the ninth execution failed with a transient error and ended the job
C3_Witness ==
    /\ attempts = 9
    /\ last_exec.id = 1
    /\ last_exec.result = "failure"
    /\ last_exec.exc.class = "IOError"
    /\ broker = {}

\* the FailedTask records of job id
RecordsOf(id) == {i \in 1..Len(FailedTask) : FailedTask[i].task_id = id}

\* the retry messages of job id
MessagesOf(id) == {m \in broker : m.id = id}

\* the last execution invoked the function, which failed with one of the
\* three classes the wrapper retries
FailedTransient ==
    /\ last_exec.invoked = 1
    /\ last_exec.exc.class \in {"IOError", "NewsletterException", "ETRestError"}

\* C11: an execution of any wrapped task that fails with a transient error
\* whose message contains an entry of IGNORE_ERROR_MSGS ends the job: no retry
\* is scheduled and no FailedTask is created.
C11_IgnoredEndsJob ==
    (/\ FailedTransient
     /\ \/ Contains(last_exec.exc.msg, "InvalidEmailAddress")
        \/ Contains(last_exec.exc.msg, "An invalid phone number was provided")) =>
        /\ last_exec.result = "ignored"
        /\ MessagesOf(last_exec.id) = {}
        /\ RecordsOf(last_exec.id) = {}

\* C12: a transient error whose message contains 'There are no valid
\* subscribers' is retried while retries remain, the wrapper's retries with
\* the delay 60 * 2^n, and the execution that exhausts the retries ends the
\* job with no FailedTask.
C12_PostRetrySuppressed ==
    (FailedTransient /\ Contains(last_exec.exc.msg, "There are no valid subscribers")) =>
        IF last_exec.retries < 8
        THEN /\ last_exec.result = "retry"
             /\ last_exec.by = "wrapper" => last_exec.countdown = 60 * (2 ^ last_exec.retries)
             /\ \E m \in MessagesOf(last_exec.id) : m.retries = last_exec.retries + 1
             /\ RecordsOf(last_exec.id) = {}
        ELSE /\ last_exec.result = "suppressed"
             /\ MessagesOf(last_exec.id) = {}
             /\ RecordsOf(last_exec.id) = {}

\* the ninth execution met the error of the second list and ended silently
C12_Witness ==
    /\ attempts = 9
    /\ last_exec.retries = 8
    /\ last_exec.result = "suppressed"
    /\ last_exec.exc.class = "NewsletterException"
    /\ FailedTask = <<>>
    /\ broker = {}

\* C13 as stated: a job ending in a terminal failure emits the failure counter
\* and has exactly one FailedTask; any other execution leaves the job with
\* none.
C13_FailureRecorded ==
    last_exec.invoked = 1 =>
        IF last_exec.result = "failure"
        THEN /\ last_exec.counter = "failure"
             /\ Cardinality(RecordsOf(last_exec.id)) = 1
        ELSE RecordsOf(last_exec.id) = {}

\* C13, amended: an execution that ends the job in a terminal failure emits
\* the failure counter and, when settings.STORE_TASK_FAILURES is set, appends
\* exactly one FailedTask, of that job, otherwise none; an execution ending in
\* success, an ignored error or a retry emits no failure counter and leaves
\* the job with no FailedTask; the records already in the table are never
\* changed or removed.
C13_FailureRecordedIfStored ==
    /\ [](/\ Cardinality(RecordsOf(last_exec.id)) <= 1
          /\ (last_exec.invoked = 1 /\ last_exec.result # "failure") =>
                /\ last_exec.counter # "failure"
                /\ RecordsOf(last_exec.id) = {})
    /\ [][/\ Len(FailedTask') >= Len(FailedTask)
          /\ SubSeq(FailedTask', 1, Len(FailedTask)) = FailedTask
          /\ \A m \in broker :
                (Executed(m) /\ last_exec'.result = "failure") =>
                    /\ last_exec'.counter = "failure"
                    /\ FailedTask' =
                          IF STORE_TASK_FAILURES
                          THEN Append(FailedTask, [task_id |-> m.id, name |-> m.name,
                                                   exc |-> last_exec'.exc.class])
                          ELSE FailedTask]_vars

\* retries were exhausted with a transient error and the failure was stored
C13_Witness ==
    /\ STORE_TASK_FAILURES
    /\ last_exec.result = "failure"
    /\ last_exec.retries = 8
    /\ last_exec.exc.class = "ETRestError"
    /\ FailedTask = <<[task_id |-> last_exec.id, name |-> last_exec.name, exc |-> "ETRestError"]>>

\* C14: an execution that raises BasketError or any exception other than
\* IOError, NewsletterException and ETRestError schedules no retry: the
\* exception leaves the wrapper and the job is over after that execution.
C14_FatalNotRetried ==
    (/\ last_exec.invoked = 1
     /\ last_exec.exc.class \notin {"none", "IOError", "NewsletterException", "ETRestError"}) =>
        /\ last_exec.result = "failure"
        /\ last_exec.counter = "failure"
        /\ MessagesOf(last_exec.id) = {}

\* the first execution raised BasketError and the job is over
C14_Witness ==
    /\ attempts = 1
    /\ last_exec.retries = 0
    /\ last_exec.exc.class = "BasketError"
    /\ last_exec.result = "failure"
    /\ broker = {}
\* C31: an execution the maintenance gate defers appends one QueuedTask with
\* the name, the positional arguments and the keyword arguments of the
\* message, start_time removed; it counts the job as queued, invokes
\* nothing, and leaves no retry message and no failure record.
C31_QueuedAsSubmitted ==
    [][\A m \in broker :
          (Executed(m) /\ MAINTENANCE_MODE /\ m.name \notin ExemptNames) =>
              /\ QueuedTask' = Append(QueuedTask,
                                      [name |-> m.name, args |-> m.args,
                                       kwargs |-> m.kwargs \ {"start_time"}])
              /\ last_exec'.queued = 1
              /\ last_exec'.result = "queued"
              /\ last_exec'.invoked = 0
              /\ broker' = {}
              /\ FailedTask' = FailedTask]_vars

\* a job submitted with skip_welcome was deferred
C31_Witness ==
    /\ last_exec.result = "queued"
    /\ last_exec.queued = 1
    /\ Len(QueuedTask) = 1
    /\ QueuedTask[1] = [name |-> "news.tasks.update_fxa_info", args |-> <<1>>,
                        kwargs |-> {"skip_welcome"}]
    /\ broker = {}

TerminalResults == {"success", "ignored", "suppressed", "queued", "failure"}

\* C21: under fair scheduling the job the broker holds is eventually over
\* with one terminal result (success, suppressed failure, deferred, failure);
\* once a job is over the broker never holds a message of it again.
C21_EveryJobTerminates ==
    /\ (broker # {}) ~> (broker = {} /\ last_exec.result \in TerminalResults)
    /\ [][\A id \in 1..MaxJobs :
             (id <= submitted /\ MessagesOf(id) = {}) => MessagesOf(id)' = {}]_vars

\* a job was retried until the retries ran out and is over
C21_Witness ==
    /\ submitted >= 1
    /\ broker = {}
    /\ last_exec.retries = max_retries
    /\ last_exec.result = "failure"
    /\ attempts = max_retries + 1

\* C4: a call whose first attempt meets an expired session logs in once and,
\* the login granted, makes one further attempt; a second expiry propagates,
\* with no second login and no third attempt. A call whose first attempt
\* does not meet an expired session makes that single attempt and no login.
C4_OneRefresh ==
    /\ sf_call.logins <= 1
    /\ sf_call.attempts <= 2
    /\ sf_pc = "done" =>
          IF sf_call.first = "SalesforceExpiredSession"
          THEN /\ sf_call.logins = 1
               /\ sf_call.login = "ok" =>
                     /\ sf_call.attempts = 2
                     /\ sf_call.result = sf_call.second
               /\ sf_call.login = "failed" => sf_call.attempts = 1
          ELSE sf_call.logins = 0 /\ sf_call.attempts = 1

\* both attempts met an expired session
C4_Witness ==
    /\ sf_pc = "done"
    /\ sf_call.first = "SalesforceExpiredSession"
    /\ sf_call.second = "SalesforceExpiredSession"
    /\ sf_call.result = "SalesforceExpiredSession"

\* C33: the client keeps the session the last login handed out, so a call
\* whose session the store has not expired meets no expired session and logs
\* in not at all; over every sequence of calls there are as many logins as
\* calls whose first attempt met an expired session
C33_RefreshedSessionKept ==
    /\ [](/\ session_id = sessions_issued
          /\ srv_session \in {0, session_id}
          /\ sf_seq.logins <= sf_seq.expired
          /\ sf_pc \in {"idle", "done", "attempt2"} => sf_seq.logins = sf_seq.expired
          /\ sf_pc = "done" /\ sf_call.first # "SalesforceExpiredSession" =>
                sf_call.logins = 0)
    /\ [][/\ (sf_pc = "attempt1" /\ srv_session = session_id) =>
               sf_seq'.expired = sf_seq.expired
          /\ sf_seq'.logins # sf_seq.logins =>
               (sf_pc = "login" /\ sf_call.first = "SalesforceExpiredSession")]_vars

\* C35: update_get_involved for a known interest and subscribe true, the
\* lookup of the user answered, computes the delta, upserts the two records,
\* dispatches the interest welcome and sends the newsletter welcomes
C35_GetInvolvedCompletes ==
    (/\ sj.name = "news.tasks.update_get_involved"
     /\ sj.known /\ sj.subscribe /\ sj.lookup = "ok") =>
        /\ sj.out.raised = "none"
        /\ sj.out.delta
        /\ sj.out.upserts = 2
        /\ sj.out.welcome
        /\ sj.out.welcomes

\* C36: update_student_ambassadors sends one update, addressed by the token,
\* of the store fields of every key of data that FSA_FIELDS maps, the
\* sharing flag as a boolean
C36_OneAmbassadorUpdate ==
    sj.name = "news.tasks.update_student_ambassadors" =>
        /\ sj.out.raised = "none"
        /\ sj.out.updates = 1
        /\ sj.out.contact_id.fn = FIELD_MAP["token"]
        /\ sj.out.contact_id.value = sj.token
        /\ sj.out.update_data =
              {FSA_FIELDS[k] : k \in sj.out.data \cap DOMAIN FSA_FIELDS}
        /\ "STUDENTS_ALLOW_SHARE" \in sj.keys => sj.out.converted

\* C34: whatever the sforce-limit-info header of the response holds, a call
\* whose upstream call succeeded returns that response
C34_LimitInfoNeverRaises ==
    (sf_pc = "done" /\ sf_call.result = "resp") => sf_call.returned = "resp"

\* the second call of a run goes through on the session the first call's
\* login stored
C33_Witness ==
    /\ sf_pc = "done"
    /\ sf_seq = [calls |-> 2, expired |-> 1, logins |-> 1]
    /\ session_id = 2
    /\ sf_call.first = "resp"
    /\ sf_call.logins = 0

\* the slugs a request names: the entries of its comma-separated list
RequestedSlugs(csv) == Range(RequestedNewsletters(csv)) \ {<<>>}

\* C5: for SET the delta is {s: true for s in R} united with
\* {s: false for s in C minus R}, R the requested and C the current slugs.
C5_SetDelta ==
    (rc.phase = "done" /\ rc.api = SET) =>
        LET R == RequestedSlugs(rc.data.newsletters)
            C == rc.before.newsletters
        IN rc.map = [s \in R \cup (C \ R) |-> s \in R]

\* C6: for SUBSCRIBE the delta maps no slug to false, and each of its keys is
\* a slug of the list handed to parse_newsletters or a member of a group
\* that list names.
C6_SubscribeDelta ==
    (rc.phase = "done" /\ rc.api = SUBSCRIBE) =>
        \A k \in DOMAIN rc.map :
            /\ rc.map[k]
            /\ \/ k \in Range(rc.newsletters)
               \/ \E g \in Range(rc.newsletters) : k \in newsletter_group_newsletter_slugs(g)

\* a group was named and its members are in the delta
C6_Witness ==
    /\ rc.phase = "done"
    /\ rc.api = SUBSCRIBE
    /\ rc.newsletters = <<<<"a">>, <<"g">>>>
    /\ DOMAIN rc.map = {<<"a">>, <<"b">>, <<"c">>}
    /\ rc.before.newsletters # {}

C8_SetIdempotent ==
    (rc.phase = "done" /\ rc.repeat /\ rc.api = SET) =>
        /\ \A k \in DOMAIN rc.map : rc.map[k] /\ k \in rc.before.newsletters
        /\ rc.outcome = "updated" => contact.newsletters = rc.before.newsletters

\* the request named two newsletters and was reconciled twice
C8_Witness ==
    /\ rc.phase = "done"
    /\ rc.repeat
    /\ rc.api = SET
    /\ rc.outcome = "updated"
    /\ DOMAIN rc.map = {<<"a">>, <<"b">>}

\* C15: a reconciliation that returns normally has made exactly one write
\* call to the contact store: a create when no contact was found, an update
\* otherwise.
C15_OneWrite ==
    (rc.phase = "done" /\ rc.ret.kind = "value") =>
        /\ Len(rc.writes) = 1
        /\ rc.writes[1] = (IF rc.before.exists THEN "update" ELSE "create")
        /\ contact.exists

\* a contact with a token was updated and the call returned
C15_Witness ==
    /\ rc.phase = "done"
    /\ rc.ret.kind = "value"
    /\ rc.before.exists
    /\ rc.before.token # 0
    /\ rc.writes = <<"update">>
    /\ rc.api = UNSUBSCRIBE

\* C16: a reconciliation that made its write returns (token, created),
\* created true iff no contact was found; the token is newly minted and
\* stored when no contact was found or the contact had none, and is the
\* contact's token otherwise, whether the request carries a token or not.
C16_ReturnsToken ==
    (rc.phase = "done" /\ rc.outcome \in {"created", "updated", "elsewhere"}) =>
        /\ rc.ret.kind = "value"
        /\ rc.ret.created = ~rc.before.exists
        /\ IF ~rc.before.exists \/ rc.before.token = 0
           THEN rc.ret.token = tokens_minted /\ contact.token = rc.ret.token
           ELSE rc.ret.token = rc.before.token /\ contact.token = rc.before.token

\* C17: whatever the interleaving of the reconciliation jobs of a contact, a
\* token stored for the contact is never replaced by another, and the tokens
\* the jobs minted and the store took for the email are one token.
C17_TokenAssignedOnce ==
    [][/\ contact.token # 0 => contact'.token = contact.token
       /\ \A w \in Workers :
             (jobs'[w].outcome \in {"created", "updated", "duplicate"}
                  /\ jobs'[w].token # 0)
                 => jobs'[w].token = contact'.token]_vars

\* the slugs the delta subscribes that the contact was not subscribed to
NewlySubscribed == {sl \in DOMAIN rc.map : rc.map[sl] /\ sl \notin rc.before.newsletters}

\* C18: when neither the request nor the fetched contact grants opt-in,
\* opt-in is granted iff a newly subscribed slug belongs to a newsletter that
\* does not require double opt-in.
C18_AutoOptin ==
    (/\ rc.phase = "done"
     /\ rc.data.optin # "true"
     /\ ~(rc.before.exists /\ rc.before.optin)) =>
        (rc.optin = "true" <=>
            \E n \in Newsletters : n.slug \in NewlySubscribed /\ ~n.requires_double_optin)

\* C22: a reconciliation job that has written a delta subscribing the contact
\* to a newsletter has dispatched welcome messages after the write.
C22_WelcomesAfterWrite ==
    (/\ rc.phase = "done"
     /\ rc.outcome \in {"created", "updated"}
     /\ \E sl \in DOMAIN rc.map : rc.map[sl]) =>
        rc.dispatched # <<>>

\* C27: the delta of parse_newsletters has a key only for a newsletter whose
\* status has to change: no slug the contact already has is set to true, no
\* slug the contact does not have is set to false.
C27_MinimalDelta ==
    rc.phase = "done" =>
        \A sl \in DOMAIN rc.map :
            IF rc.map[sl] THEN sl \notin rc.before.newsletters
            ELSE sl \in rc.before.newsletters

\* C28: the update of a contact found without a token is addressed to that
\* contact, by a key built from a field that has a value, never from the
\* empty token, and stores the newly minted token on it.
C28_TokenlessUpdateAddressed ==
    (/\ rc.phase = "done"
     /\ rc.before.exists
     /\ rc.before.token = 0
     /\ rc.writes = <<"update">>) =>
        /\ ~(rc.contact_id.fn = FIELD_MAP.token /\ rc.contact_id.value = 0)
        /\ rc.outcome = "updated"
        /\ rc.ret.token = tokens_minted
        /\ contact.token = rc.ret.token

\* C32: for a contact that is opted in, the write of a reconciliation does
\* not carry opt-in false, whatever the request, and leaves it opted in.
C32_OptinNeverRevoked ==
    (/\ rc.phase = "done"
     /\ rc.before.exists
     /\ rc.before.optin
     /\ rc.writes # <<>>) =>
        /\ rc.optin # "false"
        /\ rc.outcome = "updated" => contact.optin

\* C23: an error the store client raises in a job (lookup, create or update)
\* is handled as transient: while retries are left the job is retried, with
\* the backoff delay, and does not fail on that execution.
C23_StoreErrorsRetried ==
    (/\ last_exec.id # 0
     /\ last_exec.invoked = 1
     /\ sj.error \in StoreErrors
     /\ last_exec.retries < max_retries) =>
        /\ last_exec.result = "retry"
        /\ last_exec.countdown = 60 * (2 ^ last_exec.retries)
        /\ \E m \in broker : m.id = last_exec.id /\ m.retries = last_exec.retries + 1

\* the record has no id, token or email with a value
Unresolvable(record) == \A k \in record.keys : record[k] = 0

\* C24: an update for a record from which no id, token or email can be
\* resolved fails with the explicit-fatal error and sends no write.
C24_MissingIdentifierFatal ==
    (sj.name = "SFDC.update" /\ Unresolvable(sj.record)) =>
        /\ sj.raised = "BasketError"
        /\ ~sj.sent

\* C26: the retry message of an upsert_user job holds the request fields as
\* they were submitted: the newsletters in their submitted form, no token
\* added, no opt-in added.
C26_RetryHasSubmittedArgs ==
    \A m \in broker :
        (m.name = "news.tasks.upsert_user" /\ m.retries > 0) => sj.data = sj.submitted

Welcome == <<"w", "e", "l", "c", "o", "m", "e">>

\* c is the lower-case form of d
LowerOf(c, d) ==
    /\ c \in {"f", "r", "p", "t"}
    /\ d = c \/ <<d, c>> \in {<<"F", "f">>, <<"R", "r">>}

\* C9: the result is message_id, after the lower-cased first two letters of
\* lang and '_' when lang is non-empty, and before '_T' iff format is 'T';
\* with the three examples of the specification.
C9_Mogrify ==
    mg.done =>
        LET n == IF mg.lang.isNone \/ mg.lang.s = <<>> THEN 0
                 ELSE IF Len(mg.lang.s) = 1 THEN 1 ELSE 2
            p == IF n = 0 THEN 0 ELSE n + 1
            t == IF mg.format = "T" THEN 2 ELSE 0
            r == mg.result
        IN /\ Len(r) = p + Len(mg.message_id) + t
           /\ SubSeq(r, p + 1, p + Len(mg.message_id)) = mg.message_id
           /\ \A i \in 1..n : LowerOf(r[i], mg.lang.s[i])
           /\ n > 0 => r[p] = "_"
           /\ t = 2 => SubSeq(r, Len(r) - 1, Len(r)) = <<"_", "T">>
           /\ (mg.message_id = Welcome /\ mg.lang = PyStr(<<"f", "r">>) /\ mg.format = "H")
                 => r = <<"f", "r", "_">> \o Welcome
           /\ (mg.message_id = Welcome /\ mg.lang = PyStr(<<"p", "t">>) /\ mg.format = "T")
                 => r = <<"p", "t", "_">> \o Welcome \o <<"_", "T">>
           /\ (mg.message_id = Welcome /\ mg.lang = PyStr(<<>>) /\ mg.format = "T")
                 => r = Welcome \o <<"_", "T">>

\* a three-letter upper-case language and the text format
C9_Witness ==
    /\ mg.done
    /\ mg.message_id = Welcome
    /\ mg.lang = PyStr(<<"F", "R", "p">>)
    /\ mg.format = "T"
    /\ mg.result = <<"f", "r", "_">> \o Welcome \o <<"_", "T">>

\* the welcome id of newsletter n for the contact and format of sw
WelcomeIdOf(n) ==
    mogrify_message_id(Strip(n.welcome),
                       PyStr(WelcomeLang(n, IF sw.user_data.has_lang
                                            THEN sw.user_data.lang ELSE <<"e", "n">>)),
                       sw.format)

FatalBasketError ==
    /\ last_exec.result = "failure"
    /\ last_exec.exc.class = "BasketError"
    /\ broker = {}
    /\ ~sj.wrote

\* an execution of confirm_user in which the store raised no error
Confirmed == sj.name = "news.tasks.confirm_user" /\ last_exec.invoked = 1 /\ sj.error = "none"

\* C30 as stated: confirm_user fails with the explicit-fatal error, without
\* write or retry, when the token is unknown or the contact has no email;
\* it makes no write when the contact is opted in; otherwise it makes one
\* update that sets opt-in; the contact is written at most once.
C30_ConfirmFatalWithoutEmail ==
    Confirmed =>
        /\ IF ~sj.before.exists \/ ~sj.before.email THEN FatalBasketError
           ELSE IF sj.before.optin THEN last_exec.result = "success" /\ ~sj.wrote
           ELSE last_exec.result = "success" /\ sj.wrote /\ contact.optin
        /\ sj.writes <= 1

\* C30, amended: the contact without email makes confirm_user fail only when
\* it is not yet opted in; an opted-in contact makes it return without write,
\* with or without email.
C30_ConfirmOnce ==
    Confirmed =>
        /\ IF ~sj.before.exists THEN FatalBasketError
           ELSE IF sj.before.optin THEN last_exec.result = "success" /\ ~sj.wrote
           ELSE IF ~sj.before.email THEN FatalBasketError
           ELSE /\ last_exec.result = "success"
                /\ sj.wrote
                /\ contact = [sj.before EXCEPT !.optin = TRUE]
        /\ sj.writes <= 1

\* the second confirm_user of the contact finds it opted in by the first
\* and writes nothing
C30_Witness ==
    /\ Confirmed
    /\ last_exec.id = 2
    /\ sj.before.optin
    /\ ~sj.wrote
    /\ sj.writes = 1
    /\ last_exec.result = "success"

\* C19: an execution of send_message calls the delivery client iff the
\* message id is not in the cache of bad ids when it starts: an id marked
\* invalid is not sent again while its entry is cached, and the job then
\* ends at once; an id not in the cache is always sent.
C19_NegativeCache ==
    [][\A m \in broker :
          (Executed(m) /\ last_exec'.invoked = 1) =>
              /\ sm'.id = m.id /\ sm'.message_id = m.args[1]
              /\ sm'.called <=> m.args[1] \notin BAD_MESSAGE_ID_CACHE
              /\ m.args[1] \in BAD_MESSAGE_ID_CACHE =>
                    /\ last_exec'.result = "success"
                    /\ BAD_MESSAGE_ID_CACHE' = BAD_MESSAGE_ID_CACHE]_vars

\* the second job found its message id in the cache and did not send
C19_Witness ==
    /\ sm.id = 2
    /\ ~sm.called
    /\ sm.message_id \in BAD_MESSAGE_ID_CACHE
    /\ last_exec.id = 2
    /\ last_exec.result = "success"

\* C20: a NewsletterException of send_mail whose message contains 'Invalid
\* Customer Key' puts exactly that message id into the cache and ends the
\* job without retry and without failure; any other error of send_mail
\* leaves the cache as it was and leaves the function unchanged, so that
\* the wrapper retries the job as it does any error of its class and message.
C20_InvalidKey ==
    [][\A m \in broker :
          (Executed(m) /\ last_exec'.invoked = 1 /\ sm'.called) =>
              IF /\ sm'.answer.class = "NewsletterException"
                 /\ Contains(sm'.answer.msg, "Invalid Customer Key")
              THEN /\ BAD_MESSAGE_ID_CACHE' = BAD_MESSAGE_ID_CACHE \cup {m.args[1]}
                   /\ last_exec'.result = "success"
                   /\ broker' = {}
                   /\ FailedTask' = FailedTask
              ELSE /\ BAD_MESSAGE_ID_CACHE' = BAD_MESSAGE_ID_CACHE
                   /\ last_exec'.exc = sm'.answer
                   /\ (/\ sm'.answer.class # "none"
                       /\ ~Contains(sm'.answer.msg, "InvalidEmailAddress")
                       /\ m.retries < 8) =>
                         /\ last_exec'.result = "retry"
                         /\ broker' = {RetryMessage(m, 60 * (2 ^ m.retries))}]_vars

\* an invalid key was met on a retry: the id is cached and the job is over
C20_Witness ==
    /\ sm.called
    /\ sm.answer.class = "NewsletterException"
    /\ Contains(sm.answer.msg, "Invalid Customer Key")
    /\ sm.message_id \in BAD_MESSAGE_ID_CACHE
    /\ last_exec.retries = 1
    /\ last_exec.result = "success"
    /\ broker = {}

====
